---- MODULE Spec2Model ----
(***************************************************************************)
(* A model of the nova-agent server: the POST /agent handler (turn loop), *)
(* the decision parser, the Bedrock client with its protocol fallback, the *)
(* three tools and the lexical retrieval scorer; of the page that sends    *)
(* the request and may abort it (ClientSpec); and of two requests whose    *)
(* handlers interleave at their awaits (ConcurrentSpec).                   *)
(*                                                                         *)
(* Strings.  A JavaScript string is modelled as a sequence of atoms; an    *)
(* atom is a piece of text that the code never looks inside (a word, one   *)
(* punctuation mark, the member list of one JSON object).  Concatenation   *)
(* is \o, the empty string is << >>.  The atoms are chosen so that no atom *)
(* is the concatenation of other atoms, hence two strings are equal        *)
(* exactly when their atom sequences are equal.                            *)
(*                                                                         *)
(* Values.  A JavaScript value is a record with a kind k:                  *)
(*   "str" (v: the string), "num" (v: its decimal text), "bool" (v),       *)
(*   "null", "undef", "arr" (v: its JSON text), "obj" (v: its JSON text,   *)
(*   m: its members when it is a top-level parsed decision).               *)
(***************************************************************************)
EXTENDS Integers, Sequences, FiniteSets, TLC

(***************************************************************************)
(* Bounds of the model                                                     *)
(***************************************************************************)
\* The backend may answer with any text of ModelTexts during the first
\* RichTurns turns of a run and with a text of CoreTexts afterwards.
RichTurns == 1

(***************************************************************************)
(* JavaScript values and strings                                           *)
(***************************************************************************)
Str(v) == [k |-> "str", v |-> v]
Num(v) == [k |-> "num", v |-> v]
Null == [k |-> "null"]
Undefined == [k |-> "undef"]
Absent == [k |-> "absent"]

IsSpace(a) == a \in {" ", "\n"}

RECURSIVE trimStart(_)
trimStart(s) ==
  IF s # << >> /\ IsSpace(Head(s)) THEN trimStart(Tail(s)) ELSE s

RECURSIVE trimEnd(_)
trimEnd(s) ==
  IF s # << >> /\ IsSpace(s[Len(s)]) THEN trimEnd(SubSeq(s, 1, Len(s) - 1)) ELSE s

trim(s) == trimEnd(trimStart(s))

\* String.prototype.indexOf / lastIndexOf for a one-atom needle; 0-based, -1
\* when the needle does not occur.
indexOf(s, a) ==
  IF \E i \in 1..Len(s) : s[i] = a
  THEN (CHOOSE i \in 1..Len(s) : s[i] = a /\ \A j \in 1..(i - 1) : s[j] # a) - 1
  ELSE -1

\* lastIndexOf giving the first occurrence.
lastIndexOfGivesFirst(s, a) == indexOf(s, a)

lastIndexOf(s, a) ==
  IF \E i \in 1..Len(s) : s[i] = a
  THEN (CHOOSE i \in 1..Len(s) : s[i] = a /\ \A j \in (i + 1)..Len(s) : s[j] # a) - 1
  ELSE -1

\* String.prototype.slice(from, to) with 0-based from and exclusive to.
slice(s, from, to) == SubSeq(s, from + 1, to)

startsWith(s, a) == s # << >> /\ s[1] = a

\* String(x)
String(x) ==
  CASE x.k = "str" -> x.v
    [] x.k = "num" -> x.v
    [] x.k = "bool" -> x.v
    [] x.k = "null" -> <<"null">>
    [] x.k = "undef" -> <<"undefined">>
    [] x.k = "arr" -> <<"[array]">>
    [] OTHER -> <<"[object Object]">>

\* JSON.stringify(x): a string value, or undefined for undefined.
JSONstringify(x) ==
  CASE x.k = "str" -> Str(<<"\"">> \o x.v \o <<"\"">>)
    [] x.k = "num" -> Str(x.v)
    [] x.k = "bool" -> Str(x.v)
    [] x.k = "null" -> Str(<<"null">>)
    [] x.k = "undef" -> Undefined
    [] OTHER -> Str(x.v)

\* !x
Falsy(x) ==
  \/ x.k \in {"null", "undef"}
  \/ x.k = "str" /\ x.v = << >>
  \/ x.k = "num" /\ x.v = <<"0">>
  \/ x.k = "bool" /\ x.v = <<"false">>

\* typeof x === 'object'
TypeofObject(x) == x.k \in {"obj", "arr", "null"}

(***************************************************************************)
(* JSON.parse over atoms                                                   *)
(*                                                                         *)
(* The atoms of a JSON text are the structural marks { } [ ] , the scalar  *)
(* literals, and one atom per object member ("key":value).  Whitespace     *)
(* atoms between them are insignificant.                                   *)
(***************************************************************************)
MemberAtoms ==
  { "\"action\":\"final\"", "\"action\":\"tool\"", "\"action\":\"makePlan\"",
    "\"action\":\"retrieve\"", "\"action\":\"writeDraft\"",
    "\"action\":\"deleteAll\"", "\"action\":null",
    "\"tool\":\"makePlan\"", "\"tool\":\"retrieve\"", "\"tool\":\"writeDraft\"",
    "\"tool\":\"deleteAll\"",
    "\"input\":\"demo video\"", "\"input\":\"nova\"", "\"input\":3",
    "\"input\":\"Demo, demo VIDEO!\"", "\"input\":\"!\"", "\"input\":\"zebra\"",
    "\"input\":\"best practices nova\"",
    "\"output\":\"x\"", "\"output\":5", "\"output\":null" }

\* The key and the value that the member atom a denotes.
Member(a) ==
  CASE a = "\"action\":\"final\"" -> [key |-> "action", val |-> Str(<<"final">>)]
    [] a = "\"action\":\"tool\"" -> [key |-> "action", val |-> Str(<<"tool">>)]
    [] a = "\"action\":\"makePlan\"" -> [key |-> "action", val |-> Str(<<"makePlan">>)]
    [] a = "\"action\":\"retrieve\"" -> [key |-> "action", val |-> Str(<<"retrieve">>)]
    [] a = "\"action\":\"writeDraft\"" -> [key |-> "action", val |-> Str(<<"writeDraft">>)]
    [] a = "\"action\":\"deleteAll\"" -> [key |-> "action", val |-> Str(<<"deleteAll">>)]
    [] a = "\"action\":null" -> [key |-> "action", val |-> Null]
    [] a = "\"tool\":\"makePlan\"" -> [key |-> "tool", val |-> Str(<<"makePlan">>)]
    [] a = "\"tool\":\"retrieve\"" -> [key |-> "tool", val |-> Str(<<"retrieve">>)]
    [] a = "\"tool\":\"writeDraft\"" -> [key |-> "tool", val |-> Str(<<"writeDraft">>)]
    [] a = "\"tool\":\"deleteAll\"" -> [key |-> "tool", val |-> Str(<<"deleteAll">>)]
    [] a = "\"input\":\"demo video\"" -> [key |-> "input", val |-> Str(<<"demo", " ", "video">>)]
    [] a = "\"input\":\"nova\"" -> [key |-> "input", val |-> Str(<<"nova">>)]
    [] a = "\"input\":3" -> [key |-> "input", val |-> Num(<<"3">>)]
    [] a = "\"input\":\"Demo, demo VIDEO!\""
         -> [key |-> "input", val |-> Str(<<"Demo", ",", " ", "demo", " ", "VIDEO", "!">>)]
    [] a = "\"input\":\"!\"" -> [key |-> "input", val |-> Str(<<"!">>)]
    [] a = "\"input\":\"zebra\"" -> [key |-> "input", val |-> Str(<<"zebra">>)]
    [] a = "\"input\":\"best practices nova\""
         -> [key |-> "input", val |-> Str(<<"best", " ", "practices", " ", "nova">>)]
    [] a = "\"output\":\"x\"" -> [key |-> "output", val |-> Str(<<"x">>)]
    [] a = "\"output\":5" -> [key |-> "output", val |-> Num(<<"5">>)]
    [] OTHER -> [key |-> "output", val |-> Null]

ScalarAtoms == { "5", "0", "null", "\"x\"" }

Scalar(a) ==
  CASE a = "5" -> Num(<<"5">>)
    [] a = "0" -> Num(<<"0">>)
    [] a = "null" -> Null
    [] OTHER -> Str(<<"x">>)

\* The members of a parsed object that the handler reads.
NoMembers == [action |-> Absent, tool |-> Absent, input |-> Absent, output |-> Absent]

Obj(m) == [k |-> "obj", m |-> m]
Arr == [k |-> "arr", v |-> <<"[array]">>]

ParseFail == [ok |-> FALSE]
ParseOk(val, rest) == [ok |-> TRUE, val |-> val, rest |-> rest]

RECURSIVE ParseMembers(_, _)
ParseMembers(s, m) ==
  IF s = << >> \/ ~(Head(s) \in MemberAtoms) THEN ParseFail
  ELSE LET m1 == [m EXCEPT ![Member(Head(s)).key] = Member(Head(s)).val]
           r == Tail(s)
       IN  IF r = << >> THEN ParseFail
           ELSE IF Head(r) = "}" THEN ParseOk(Obj(m1), Tail(r))
           ELSE IF Head(r) = "," THEN ParseMembers(Tail(r), m1)
           ELSE ParseFail

RECURSIVE ParseValue(_)
RECURSIVE ParseElements(_)
ParseValue(s) ==
  IF s = << >> THEN ParseFail
  ELSE CASE Head(s) = "{" ->
              IF Len(s) >= 2 /\ s[2] = "}" THEN ParseOk(Obj(NoMembers), SubSeq(s, 3, Len(s)))
              ELSE ParseMembers(Tail(s), NoMembers)
         [] Head(s) = "[" ->
              IF Len(s) >= 2 /\ s[2] = "]" THEN ParseOk(Arr, SubSeq(s, 3, Len(s)))
              ELSE ParseElements(Tail(s))
         [] Head(s) \in ScalarAtoms -> ParseOk(Scalar(Head(s)), Tail(s))
         [] OTHER -> ParseFail

ParseElements(s) ==
  LET r == ParseValue(s)
  IN  IF ~r.ok \/ r.rest = << >> THEN ParseFail
      ELSE IF Head(r.rest) = "]" THEN ParseOk(Arr, Tail(r.rest))
      ELSE IF Head(r.rest) = "," THEN ParseElements(Tail(r.rest))
      ELSE ParseFail

NotSpace(a) == ~IsSpace(a)

\* JSON.parse(s): threw, or the value.
JSONparse(s) ==
  LET r == ParseValue(SelectSeq(s, NotSpace))
  IN  IF r.ok /\ r.rest = << >> THEN [threw |-> FALSE, val |-> r.val]
      ELSE [threw |-> TRUE, val |-> Undefined]

\* obj.key for a parsed value: undefined when the member is missing.
Prop(x, key) ==
  IF x.k = "obj" /\ x.m[key].k # "absent" THEN x.m[key] ELSE Undefined

\* 'key' in obj
HasProp(x, key) == x.k = "obj" /\ x.m[key].k # "absent"

(***************************************************************************)
(* Decision parser (routes/agent)                                          *)
(***************************************************************************)
\* isToolName accepting every string.
isToolNameAnyString(x) == x.k = "str"

isToolName(x) ==
  x.k = "str" /\ x.v \in {<<"makePlan">>, <<"retrieve">>, <<"writeDraft">>}

\* The atom standing for the three backquote characters of a Markdown fence
\* (a backquote cannot be written in a string of this language).
Fence == "FENCE"
IsJsonTag(a) == a \in {"json", "JSON"}

\* The fence pattern of extractJsonObject applied to the trimmed text: an
\* opening fence, an optional json tag (any case), optional whitespace, the
\* lazily captured group, optional whitespace and the closing fence at the
\* end of the text.  Gives whether it matched and the captured group.
fenceMatch(trimmed) ==
  IF Len(trimmed) >= 2 /\ trimmed[1] = Fence /\ trimmed[Len(trimmed)] = Fence
  THEN LET inner == SubSeq(trimmed, 2, Len(trimmed) - 1)
           afterTag == IF inner # << >> /\ IsJsonTag(Head(inner)) THEN Tail(inner) ELSE inner
       IN  [matched |-> TRUE, group1 |-> trimEnd(trimStart(afterTag))]
  ELSE [matched |-> FALSE, group1 |-> << >>]

\* extractJsonObject that only trims the text.
extractJsonObjectTrimOnly(text) == trim(text)

extractJsonObject(text) ==
  LET trimmed == trim(text)
      fm == fenceMatch(trimmed)
      candidate == IF fm.matched THEN trim(fm.group1) ELSE trimmed
      firstBrace == indexOf(candidate, "{")
      lastBrace == lastIndexOf(candidate, "}")
      firstBracket == indexOf(candidate, "[")
      lastBracket == lastIndexOf(candidate, "]")
  IN  IF startsWith(candidate, "{") \/ startsWith(candidate, "[") THEN candidate
      ELSE IF firstBrace >= 0 /\ lastBrace > firstBrace
           THEN slice(candidate, firstBrace, lastBrace + 1)
      ELSE IF firstBracket >= 0 /\ lastBracket > firstBracket
           THEN slice(candidate, firstBracket, lastBracket + 1)
      ELSE candidate

\* safeJsonParse whose catch block returns nothing.
safeJsonParseCatchReturnsNothing(text) ==
  LET r == JSONparse(extractJsonObject(text))
  IN  IF r.threw THEN Undefined ELSE r.val

safeJsonParse(text) ==
  LET r == JSONparse(extractJsonObject(text))
  IN  IF r.threw THEN Null ELSE r.val

(***************************************************************************)
(* Retrieval scorer (agent/retrieval)                                      *)
(***************************************************************************)
\* The corpus: title and text as atoms (words, single marks, blanks and
\* line breaks), length the number of characters of text.
Doc1 ==
  [ id |-> "hackathon-submission",
    title |->
      << "Hackathon", " ", "submission", " ", "checklist" >>,
    text |->
      << "Pick", " ", "one", " ", "category", ".", "\n", "Provide", " ", "a",
         " ", "brief", " ", "text", " ", "description", " ", "explaining",
         " ", "what", " ", "you", " ", "built", " ", "and", " ", "how", " ",
         "you", " ", "leverage", " ", "Amazon", " ", "Nova", ".", "\n",
         "Provide", " ", "a", " ", "demo", " ", "video", " ", "around", " ",
         "3", " ", "minutes", " ", "showing", " ", "the", " ", "project",
         " ", "functioning", " ", "and", " ", "include", " ", "#", "Amazon",
         "Nova", ".", "\n", "Provide", " ", "a", " ", "code", " ",
         "repository", " ", "link", " ", "(", "share", " ", "access", " ",
         "if", " ", "private", ")", "." >>,
    length |-> 264 ]

Doc2 ==
  [ id |-> "nova-act-summary",
    title |->
      << "Nova", " ", "Act", " ", "summary" >>,
    text |->
      << "Nova", " ", "Act", " ", "is", " ", "an", " ", "AWS", " ",
         "service", " ", "to", " ", "build", " ", "and", " ", "manage", " ",
         "fleets", " ", "of", " ", "reliable", " ", "AI", " ", "agents", " ",
         "for", " ", "automating", " ", "production", " ", "UI", " ",
         "workflows", " ", "at", " ", "scale", ".", "\n", "It", " ",
         "automates", " ", "browser", " ", "workflows", " ", "and", " ",
         "can", " ", "integrate", " ", "with", " ", "external", " ", "tools",
         " ", "via", " ", "API", " ", "calls", " ", "and", " ", "remote",
         " ", "MCP", "." >>,
    length |-> 223 ]

Doc3 ==
  [ id |-> "agentic-best-practices",
    title |->
      << "Agentic", " ", "demo", " ", "best", " ", "practices" >>,
    text |->
      << "Show", " ", "a", " ", "clear", " ", "goal", ",", " ", "a", " ",
         "plan", ",", " ", "tool", " ", "usage", ",", " ", "and", " ", "a",
         " ", "trace", " ", "of", " ", "steps", ".", "\n", "Keep", " ",
         "the", " ", "demo", " ", "crisp", " ", "and", " ", "within", " ",
         "3", " ", "minutes", ".", "\n", "Make", " ", "errors", " ",
         "visible", " ", "and", " ", "actionable", " ", "(", "missing", " ",
         "credentials", ",", " ", "missing", " ", "model", " ", "access",
         ")", "." >>,
    length |-> 182 ]

DOCS == <<Doc1, Doc2, Doc3>>

\* The atoms that contain no letter and no digit.  Every other atom that
\* reaches tokenize is a word of letters and digits only.
Marks == {" ", "\n", ".", ",", "#", "(", ")", "\"", ":", "{", "}", "[", "]", "-", "!"}

\* toLowerCase of one word atom.
Lower(a) ==
  CASE a = "AI" -> "ai"
    [] a = "API" -> "api"
    [] a = "AWS" -> "aws"
    [] a = "Act" -> "act"
    [] a = "Agentic" -> "agentic"
    [] a = "Amazon" -> "amazon"
    [] a = "Hackathon" -> "hackathon"
    [] a = "It" -> "it"
    [] a = "Keep" -> "keep"
    [] a = "MCP" -> "mcp"
    [] a = "Make" -> "make"
    [] a = "Nova" -> "nova"
    [] a = "Pick" -> "pick"
    [] a = "Provide" -> "provide"
    [] a = "Show" -> "show"
    [] a = "UI" -> "ui"
    [] a = "Demo" -> "demo"
    [] a = "VIDEO" -> "video"
    [] OTHER -> a

toLowerCase(s) == [i \in 1..Len(s) |-> Lower(s[i])]

\* replace(/[^a-z0-9\s]/g, ' ') on a lower-cased string: every mark that is
\* not whitespace becomes a blank.
replaceNonAlnum(s) ==
  [i \in 1..Len(s) |-> IF s[i] \in Marks /\ ~IsSpace(s[i]) THEN " " ELSE s[i]]

\* split(/\s+/): the maximal runs of atoms that are not whitespace, in
\* order, with an empty piece in front when the string is empty or starts
\* with whitespace and an empty piece behind when it ends with whitespace.
split(s) ==
  LET IsStart(i) == ~IsSpace(s[i]) /\ (i = 1 \/ IsSpace(s[i - 1]))
      starts == SelectSeq([i \in 1..Len(s) |-> i], IsStart)
      EndOf(i) == CHOOSE j \in i..Len(s) :
                    /\ \A n \in i..j : ~IsSpace(s[n])
                    /\ (j = Len(s) \/ IsSpace(s[j + 1]))
      runs == [n \in 1..Len(starts) |-> SubSeq(s, starts[n], EndOf(starts[n]))]
      lead == IF s = << >> \/ IsSpace(s[1]) THEN << << >> >> ELSE << >>
      trail == IF s # << >> /\ IsSpace(s[Len(s)]) THEN << << >> >> ELSE << >>
  IN  lead \o runs \o trail

NonEmpty(t) == t # << >>

\* A token is the sequence of the word atoms of one maximal run.
tokenize(s) == SelectSeq(split(replaceNonAlnum(toLowerCase(s))), NonEmpty)

SeqToSet(s) == {s[i] : i \in 1..Len(s)}

\* new Set(tokenize(d.title + ' ' + d.text)) of every document.
TermSets == [i \in 1..Len(DOCS) |-> SeqToSet(tokenize(DOCS[i].title \o <<" ">> \o DOCS[i].text))]

\* q.reduce((acc, term) => acc + (termSet.has(term) ? 1 : 0), 0)
RECURSIVE scoreOf(_, _)
scoreOf(q, termSet) ==
  IF q = << >> THEN 0
  ELSE (IF Head(q) \in termSet THEN 1 ELSE 0) + scoreOf(Tail(q), termSet)

\* Array.prototype.sort with (a, b) => b.score - a.score: stable, so an
\* element goes after every element whose score is not lower.
RECURSIVE insertByScore(_, _)
insertByScore(sorted, x) ==
  IF sorted = << >> THEN <<x>>
  ELSE IF Head(sorted).score >= x.score
       THEN <<Head(sorted)>> \o insertByScore(Tail(sorted), x)
       ELSE <<x>> \o sorted

RECURSIVE sortByScore(_)
sortByScore(xs) ==
  IF xs = << >> THEN << >>
  ELSE insertByScore(sortByScore(SubSeq(xs, 1, Len(xs) - 1)), xs[Len(xs)])

SnippetMax == 400

\* d.text.length > 400 ? d.text.slice(0, 400) + ellipsis : d.text
snippet(d) ==
  IF d.length > SnippetMax THEN [text |-> d.id, cut |-> SnippetMax, ellipsis |-> TRUE]
  ELSE [text |-> d.id, cut |-> d.length, ellipsis |-> FALSE]

\* The filter that keeps every document.
HasScoreAlways(x) == TRUE

\* x.score > 0
HasScore(x) == x.score > 0

\* retrieve without the sort: the documents with a score in corpus order.
retrieveImplUnsorted(query, limit) ==
  LET q == tokenize(query)
      scored == [i \in 1..Len(DOCS) |-> [d |-> i, score |-> scoreOf(q, TermSets[i])]]
      ranked == SelectSeq(scored, HasScore)
      top == SubSeq(ranked, 1, IF Len(ranked) < limit THEN Len(ranked) ELSE limit)
  IN  IF Len(q) = 0 THEN << >>
      ELSE [i \in 1..Len(top) |->
              [ id |-> DOCS[top[i].d].id, title |-> DOCS[top[i].d].title,
                snippet |-> snippet(DOCS[top[i].d]), score |-> top[i].score ]]

retrieveImpl(query, limit) ==
  LET q == tokenize(query)
      scored == [i \in 1..Len(DOCS) |-> [d |-> i, score |-> scoreOf(q, TermSets[i])]]
      ranked == sortByScore(SelectSeq(scored, HasScore))
      top == SubSeq(ranked, 1, IF Len(ranked) < limit THEN Len(ranked) ELSE limit)
  IN  IF Len(q) = 0 THEN << >>
      ELSE [i \in 1..Len(top) |->
              [ id |-> DOCS[top[i].d].id, title |-> DOCS[top[i].d].title,
                snippet |-> snippet(DOCS[top[i].d]), score |-> top[i].score ]]

(***************************************************************************)
(* Tools (agent/tools)                                                     *)
(***************************************************************************)
createToolContext == [draft |-> Str(<< >>), plan |-> << >>]

\* typeof input === 'string' ? input : JSON.stringify(input)
inputText(input) == IF input.k = "str" THEN input ELSE JSONstringify(input)

ToolOk(ctx, output) == [threw |-> FALSE, ctx |-> ctx, output |-> output]
ToolThrew(ctx, err) == [threw |-> TRUE, ctx |-> ctx, err |-> err]

makePlan(ctx, input) ==
  LET goal == inputText(input)
      plan == << <<"Understand the goal: ">> \o String(goal),
                 <<"Retrieve relevant context and constraints">>,
                 <<"Propose an approach and key steps">>,
                 <<"Draft the output">>,
                 <<"Refine and finalize">> >>
  IN  ToolOk([ctx EXCEPT !.plan = plan], [plan |-> plan])

RetrieveLimit == 5

\* The TypeError of s.toLowerCase() in tokenize when s is undefined.
TypeErrorUndefined ==
  [ k |-> "error", name |-> Str(<<"TypeError">>),
    message |-> Str(<<"Cannot read properties of undefined (reading 'toLowerCase')">>),
    code |-> Undefined, fault |-> Undefined, metadata |-> Undefined ]

retrieve(ctx, input) ==
  LET query == inputText(input)
  IN  IF query.k = "str" THEN ToolOk(ctx, [hits |-> retrieveImpl(query.v, RetrieveLimit)])
      ELSE ToolThrew(ctx, TypeErrorUndefined)

\* writeDraft that also starts a new, empty plan.
writeDraftResetsPlan(ctx, input) ==
  LET text == inputText(input)
  IN  ToolOk([draft |-> text, plan |-> << >>], [draft |-> text])

writeDraft(ctx, input) ==
  LET text == inputText(input)
  IN  ToolOk([ctx EXCEPT !.draft = text], [draft |-> text])

(***************************************************************************)
(* Bedrock client (agent/novaClient)                                       *)
(***************************************************************************)
includes(s, a) == \E i \in 1..Len(s) : s[i] = a

\* An Error object: name and message, and the optional AWS SDK fields.
Error(name, message) ==
  [ k |-> "error", name |-> Str(name), message |-> Str(message),
    code |-> Undefined, fault |-> Undefined, metadata |-> Undefined ]

\* A service exception of the AWS SDK, with $fault and $metadata.
ServiceException(name, message, status) ==
  [ k |-> "error", name |-> Str(name), message |-> Str(message),
    code |-> Undefined, fault |-> Str(<<"client">>),
    metadata |-> [ k |-> "obj", httpStatusCode |-> Num(status), requestId |-> Str(<<"req-1">>),
                   attempts |-> Num(<<"1">>), totalRetryDelay |-> Num(<<"0">>) ] ]

toBedrockMessages(messages) ==
  [i \in 1..Len(messages) |-> [role |-> messages[i].role, content |-> <<[text |-> messages[i].content]>>]]

\* p && typeof p.text === 'string' ? p.text : '' for one content block.
partText(p) == IF p.k = "obj" /\ p.text.k = "str" THEN p.text.v ELSE << >>

RECURSIVE joinParts(_)
joinParts(parts) ==
  IF parts = << >> THEN << >> ELSE partText(Head(parts)) \o joinParts(Tail(parts))

\* The body of an InvokeModel response after JSON.parse: the content blocks
\* of output.message.content (Absent when that path is missing or not an
\* array) and the four flat fields.
extractTextFromConverseLikeJson(json) ==
  LET text == IF json.content.k = "arr" THEN joinParts(json.content.parts) ELSE << >>
  IN  IF json.content.k = "arr" /\ text # << >> THEN text
      ELSE IF json.outputText.k = "str" THEN json.outputText.v
      ELSE IF json.generation.k = "str" THEN json.generation.v
      ELSE IF json.completion.k = "str" THEN json.completion.v
      ELSE IF json.text.k = "str" THEN json.text.v
      ELSE << >>

EmptyInvokeError == Error(<<"Error">>, <<"Empty model response from Bedrock InvokeModel API">>)
EmptyConverseError == Error(<<"Error">>, <<"Empty model response from Bedrock Converse API">>)
BodySyntaxError == Error(<<"SyntaxError">>, <<"Unexpected token in JSON">>)

\* invokeModelFallback after client.send resolved with the response body
\* resp: [valid |-> whether the body is JSON, json |-> the parsed body].
invokeModelFallbackResult(resp) ==
  IF ~resp.valid THEN [threw |-> TRUE, err |-> BodySyntaxError]
  ELSE LET text == extractTextFromConverseLikeJson(resp.json)
       IN  IF text = << >> THEN [threw |-> TRUE, err |-> EmptyInvokeError]
           ELSE [threw |-> FALSE, text |-> text]

\* 'text' in p ? p.text : '' for one content block of a Converse response.
conversePartText(p) == IF p.text.k = "absent" THEN << >> ELSE p.text.v

RECURSIVE joinConverseParts(_)
joinConverseParts(parts) ==
  IF parts = << >> THEN << >> ELSE conversePartText(Head(parts)) \o joinConverseParts(Tail(parts))

\* The try block returning the joined text without the test for an empty
\* text.
converseResultNoEmptyTest(parts) == [threw |-> FALSE, text |-> joinConverseParts(parts)]

\* The try block of novaConverseText after client.send resolved with the
\* content blocks parts (resp.output?.message?.content ?? []).
converseResult(parts) ==
  LET text == joinConverseParts(parts)
  IN  IF text = << >> THEN [threw |-> TRUE, err |-> EmptyConverseError]
      ELSE [threw |-> FALSE, text |-> text]

\* msg.toLowerCase().includes('operation not allowed') on the atoms of an
\* error message.
LowerMsg(a) ==
  IF a \in {"Operation not allowed", "OPERATION NOT ALLOWED"} THEN "operation not allowed" ELSE a

mentionsOperationNotAllowed(msg) ==
  \E i \in 1..Len(msg) : LowerMsg(msg[i]) = "operation not allowed"

\* The condition of the catch block without the test of the error name.
shouldFallbackAnyName(err) ==
  LET msg == IF err.k = "error" /\ err.message.k = "str" THEN err.message.v ELSE << >>
  IN  mentionsOperationNotAllowed(msg)

\* The condition of the catch block of novaConverseText.
shouldFallback(err) ==
  LET name == IF err.k = "error" /\ err.name.k = "str" THEN err.name.v ELSE << >>
      msg == IF err.k = "error" /\ err.message.k = "str" THEN err.message.v ELSE << >>
  IN  name = <<"ValidationException">> /\ mentionsOperationNotAllowed(msg)

\* The test of the model id without the test of its prefix.
isInferenceProfileArnInfixOnly(modelId) == includes(modelId, ":inference-profile/")

isInferenceProfileArn(modelId) ==
  startsWith(modelId, "arn:aws:bedrock:") /\ includes(modelId, ":inference-profile/")

(***************************************************************************)
(* The POST /agent handler (routes/agent)                                  *)
(***************************************************************************)
maxTurns == 8
HistoryMax == 12

VARIABLES
  env,        \* process.env: NOVA_MODEL_ID, AWS_REGION, DEMO_API_KEY
  pc,         \* "idle", "awaitConverse", "awaitInvoke" (suspended in client.send), "done"
  turn,       \* the loop variable of the turn loop
  steps,      \* the transcript
  messages,   \* the conversation turns given to the model
  toolCtx,    \* the Tool Context of the run
  response,   \* the HTTP response of the request, NoResponse until it is sent
  modelCalls, \* how many times the loop has called novaConverseText
  requests,   \* the backend requests sent by the current novaConverseText call
  caught,     \* the err of the catch block of novaConverseText
  thrown,     \* the err of the catch block of the handler
  event,      \* what the handler last received: the request, or the outcome of client.send
  client,     \* the page that sent the request (NoClient for any other caller)
  parked      \* the request-local state of a second request whose handler is
              \* suspended in an await (NoRun when the server has one request)

serverVars == <<env, pc, turn, steps, messages, toolCtx, response, modelCalls, requests, caught, thrown, event>>
vars == <<env, pc, turn, steps, messages, toolCtx, response, modelCalls, requests, caught, thrown, event, client, parked>>

NoResponse == [status |-> 0]
None == [k |-> "none"]
NoEvent == [kind |-> "none"]
NoClient == [phase |-> "none"]
NoRun == [pc |-> "none"]

system == <<"You are an agent. You MUST respond with a single JSON object only ...">>

DecisionErrorMessage ==
  <<"Model did not return valid JSON decision. Ensure the model is following the JSON-only contract.">>
BudgetErrorMessage == <<"Agent exceeded max turns without producing a final answer.">>

toErrorDetails(err) ==
  IF Falsy(err) \/ err.k # "error" THEN [message |-> Str(String(err))]
  ELSE [ name |-> IF err.name.k = "str" THEN err.name ELSE Undefined,
         message |-> IF err.message.k = "str" THEN err.message ELSE Str(String(err)) ]
       @@ (IF err.code.k = "str" THEN [code |-> err.code] ELSE << >>)
       @@ (IF err.fault.k = "str" THEN [fault |-> err.fault] ELSE << >>)
       @@ (IF err.metadata.k = "obj"
           THEN [metadata |-> [ httpStatusCode |-> err.metadata.httpStatusCode,
                                requestId |-> err.metadata.requestId,
                                attempts |-> err.metadata.attempts,
                                totalRetryDelay |-> err.metadata.totalRetryDelay ]]
           ELSE << >>)

hint(region) ==
  <<"If this is an AWS/Bedrock issue, verify AWS_REGION=">> \o region
    \o <<", credentials, Bedrock model access, and NOVA_MODEL_ID.">>

\* One entry of body.messages after the map of the history pipeline: the
\* retained turn, or Null.
historyEntry(m) ==
  IF m.role.k # "str" \/ ~(m.role.v \in {<<"user">>, <<"assistant">>}) THEN Null
  ELSE IF m.content.k # "str" THEN Null
  ELSE IF trim(m.content.v) = << >> THEN Null
  ELSE [k |-> "obj", role |-> m.role.v, content |-> trim(m.content.v)]

IsObjectEntry(m) == ~Falsy(m) /\ m.k = "obj"
NotNull(x) == x # Null

\* The history pipeline without the slice.
sliceLastKeepsAll(xs, n) == xs

\* xs.slice(-n)
sliceLast(xs, n) == IF Len(xs) > n THEN SubSeq(xs, Len(xs) - n + 1, Len(xs)) ELSE xs

\* The history pipeline: filter objects, map, filter non-null, slice(-12).
retainHistory(bodyMessages) ==
  IF bodyMessages.k # "arr" THEN << >>
  ELSE LET objs == SelectSeq(bodyMessages.items, IsObjectEntry)
           mapped == [i \in 1..Len(objs) |-> historyEntry(objs[i])]
           kept == sliceLast(SelectSeq(mapped, NotNull), HistoryMax)
       IN  [i \in 1..Len(kept) |-> [role |-> kept[i].role, content |-> Str(kept[i].content)]]

goalTurn(goal, context) ==
  [ role |-> <<"user">>,
    content |-> Str(goal
                    \o (IF context # << >> THEN <<"\n", "\n", "Context:", "\n">> \o context ELSE << >>)
                    \o <<"\n", "\n", "If needed, start by making a plan, then use tools as needed, then finalize.">>) ]

\* The tool result serialized without the name of the tool.
toolMessageOutputOnly(tool, output) ==
  [ k |-> "json", tool |-> << >>,
    output |-> IF "draft" \in DOMAIN output /\ output.draft.k = "undef" THEN << >> ELSE output ]

\* JSON.stringify({ tool, output }): a member whose value is undefined is
\* left out.
toolMessage(tool, output) ==
  [ k |-> "json", tool |-> tool,
    output |-> IF "draft" \in DOMAIN output /\ output.draft.k = "undef" THEN << >> ELSE output ]

\* The if / else chain that runs the tool named tool.
runTool(tool, ctx, input) ==
  IF tool = <<"makePlan">> THEN makePlan(ctx, input)
  ELSE IF tool = <<"retrieve">> THEN retrieve(ctx, input)
  ELSE writeDraft(ctx, input)

\* The request that novaConverseText or invokeModelFallback hands to
\* client.send.
request(api, msgs) ==
  [ api |-> api, modelId |-> env.NOVA_MODEL_ID.v,
    region |-> IF Falsy(env.AWS_REGION) THEN <<"us-east-1">> ELSE env.AWS_REGION.v,
    system |-> system, messages |-> toBedrockMessages(msgs), maxTokens |-> 700 ]

\* The loop condition with an off-by-one comparison.
loopContinuesInclusive(t) == t <= maxTurns

\* The loop condition.
loopContinues(t) == t < maxTurns

\* The response is sent and the handler does not return: it stays where
\* it was suspended.
RespondWithoutReturn(resp, steps1, msgs1, ctx1, t, err, c) ==
  /\ response' = resp
  /\ pc' = pc
  /\ steps' = steps1
  /\ messages' = msgs1
  /\ toolCtx' = ctx1
  /\ turn' = t
  /\ thrown' = err
  /\ caught' = c
  /\ UNCHANGED <<env, modelCalls, requests>>

\* res.json / res.status(..).json: the response is sent and the handler
\* returns.
Respond(resp, steps1, msgs1, ctx1, t, err, c) ==
  /\ response' = resp
  /\ pc' = "done"
  /\ steps' = steps1
  /\ messages' = msgs1
  /\ toolCtx' = ctx1
  /\ turn' = t
  /\ thrown' = err
  /\ caught' = c
  /\ UNCHANGED <<env, modelCalls, requests>>

\* The response after the loop reporting the decision error.
budgetBodyAsDecisionError(steps1) == [error |-> DecisionErrorMessage, steps |-> steps1]

\* The response sent after the loop.
budgetBody(steps1) == [error |-> BudgetErrorMessage, steps |-> steps1]

\* The handler returning after the loop without sending a response.
budgetResponseMissing(steps1) == NoResponse

budgetResponse(steps1) == [status |-> 500, body |-> budgetBody(steps1)]

\* The catch block answering with a fresh list that holds the Error step
\* only.
catchBodyFreshSteps(err, steps1) ==
  LET details == toErrorDetails(err)
      message == IF details.message.k = "str" THEN details.message.v ELSE String(err)
      region == IF env.AWS_REGION.k \in {"null", "undef"} THEN <<"(unset)">> ELSE env.AWS_REGION.v
  IN  [ error |-> message, details |-> details, hint |-> hint(region),
        steps |-> <<[type |-> "error", message |-> message]>> ]

\* The catch block of the handler.
catchBody(err, steps1) ==
  LET details == toErrorDetails(err)
      message == IF details.message.k = "str" THEN details.message.v ELSE String(err)
      region == IF env.AWS_REGION.k \in {"null", "undef"} THEN <<"(unset)">> ELSE env.AWS_REGION.v
  IN  [ error |-> message, details |-> details, hint |-> hint(region),
        steps |-> Append(steps1, [type |-> "error", message |-> message]) ]

\* The catch block recording the Error step twice.
CatchPushesTwice(err, steps1, msgs1, ctx1, c) ==
  Respond([status |-> 500, body |-> catchBody(err, steps1)],
          Append(catchBody(err, steps1).steps, [type |-> "error", message |-> catchBody(err, steps1).error]),
          msgs1, ctx1, turn, err, c)

Catch(err, steps1, msgs1, ctx1, c) ==
  Respond([status |-> 500, body |-> catchBody(err, steps1)], catchBody(err, steps1).steps,
          msgs1, ctx1, turn, err, c)

\* The head of the loop for turn t: the loop ends, or novaConverseText is
\* called and runs up to its client.send.
LoopHead(t, steps1, msgs1, ctx1) ==
  IF loopContinues(t)
  THEN /\ turn' = t
       /\ steps' = steps1
       /\ messages' = msgs1
       /\ toolCtx' = ctx1
       /\ modelCalls' = modelCalls + 1
       /\ caught' = None
       /\ IF isInferenceProfileArn(env.NOVA_MODEL_ID.v)
          THEN pc' = "awaitInvoke" /\ requests' = <<request("InvokeModel", msgs1)>>
          ELSE pc' = "awaitConverse" /\ requests' = <<request("Converse", msgs1)>>
       /\ UNCHANGED <<env, response, thrown>>
  ELSE Respond(budgetResponse(steps1), steps1, msgs1, ctx1, t, thrown, caught)

\* The tool call whose result is not awaited: the loop goes on to the next
\* model call before the Tool step and the user turn are recorded.
DispatchWithoutRecording(tool, input, steps1, msgs1) ==
  LET r == runTool(tool, toolCtx, input)
  IN  IF r.threw THEN Catch(r.err, steps1, msgs1, r.ctx, caught)
      ELSE LoopHead(turn + 1, steps1, msgs1, r.ctx)

\* The tool call of a decision and what follows it: the Tool step, the user
\* turn with the result, and the next turn of the loop.
Dispatch(tool, input, steps1, msgs1) ==
  LET r == runTool(tool, toolCtx, input)
  IN  IF r.threw THEN Catch(r.err, steps1, msgs1, r.ctx, caught)
      ELSE LoopHead(turn + 1,
                    Append(steps1, [type |-> "tool", call |-> [tool |-> tool, input |-> input],
                                    output |-> r.output]),
                    Append(msgs1, [role |-> <<"user">>, content |-> toolMessage(tool, r.output)]),
                    r.ctx)

\* The validity test without the test for the action member.
isInvalidDecisionNoActionTest(parsed) == Falsy(parsed) \/ ~TypeofObject(parsed)

\* !parsed || typeof parsed !== 'object' || !('action' in parsed)
isInvalidDecision(parsed) ==
  Falsy(parsed) \/ ~TypeofObject(parsed) \/ ~HasProp(parsed, "action")

\* The test for a Final decision accepting every action that is a string.
isFinalActionAnyString(action) == action.k = "str"

\* parsed.action === 'final'
isFinalAction(action) == action = Str(<<"final">>)

\* { final: String(parsed.output ?? ''), steps }
finalBody(output, steps1) ==
  [ final |-> String(IF output.k \in {"null", "undef"} THEN Str(<< >>) ELSE output),
    steps |-> steps1 ]

\* The loop body whose compact branch does not read the input of the
\* decision.
LoopBodyCompactWithoutInput(modelText) ==
  LET steps1 == Append(steps, [type |-> "model", output |-> modelText])
      msgs1 == Append(messages, [role |-> <<"assistant">>, content |-> Str(modelText)])
      parsed == safeJsonParse(modelText)
      action == Prop(parsed, "action")
      output == Prop(parsed, "output")
  IN  IF isInvalidDecision(parsed)
      THEN Catch(Error(<<"Error">>, DecisionErrorMessage), steps1, msgs1, toolCtx, caught)
      ELSE IF isFinalAction(action)
      THEN Respond([status |-> 200, body |-> finalBody(output, steps1)],
                   steps1, msgs1, toolCtx, turn, thrown, caught)
      ELSE IF isToolName(action)
      THEN Dispatch(action.v, Undefined, steps1, msgs1)
      ELSE IF action = Str(<<"tool">>)
      THEN IF ~isToolName(Prop(parsed, "tool"))
           THEN Catch(Error(<<"Error">>, <<"Unknown or missing tool: ">> \o String(Prop(parsed, "tool"))),
                      steps1, msgs1, toolCtx, caught)
           ELSE Dispatch(Prop(parsed, "tool").v, Prop(parsed, "input"), steps1, msgs1)
      ELSE Catch(Error(<<"Error">>, <<"Unknown model action: ">> \o String(action)),
                 steps1, msgs1, toolCtx, caught)

\* The loop body after novaConverseText returned modelText.
LoopBody(modelText) ==
  LET steps1 == Append(steps, [type |-> "model", output |-> modelText])
      msgs1 == Append(messages, [role |-> <<"assistant">>, content |-> Str(modelText)])
      parsed == safeJsonParse(modelText)
      action == Prop(parsed, "action")
      output == Prop(parsed, "output")
  IN  IF isInvalidDecision(parsed)
      THEN Catch(Error(<<"Error">>, DecisionErrorMessage), steps1, msgs1, toolCtx, caught)
      ELSE IF isFinalAction(action)
      THEN Respond([status |-> 200, body |-> finalBody(output, steps1)],
                   steps1, msgs1, toolCtx, turn, thrown, caught)
      ELSE IF isToolName(action)
      THEN Dispatch(action.v, Prop(parsed, "input"), steps1, msgs1)
      ELSE IF action = Str(<<"tool">>)
      THEN IF ~isToolName(Prop(parsed, "tool"))
           THEN Catch(Error(<<"Error">>, <<"Unknown or missing tool: ">> \o String(Prop(parsed, "tool"))),
                      steps1, msgs1, toolCtx, caught)
           ELSE Dispatch(Prop(parsed, "tool").v, Prop(parsed, "input"), steps1, msgs1)
      ELSE Catch(Error(<<"Error">>, <<"Unknown model action: ">> \o String(action)),
                 steps1, msgs1, toolCtx, caught)

\* The goal test that lets every goal pass.
isMissingGoalNever(goal) == FALSE

\* !goal
isMissingGoal(goal) == goal = << >>

(***************************************************************************)
(* The environment: process environments, requests, backend answers        *)
(***************************************************************************)
PlainModelId == <<"amazon.nova-lite-v1:0">>
ProfileArn ==
  <<"arn:aws:bedrock:", "us-east-1:111122223333", ":inference-profile/", "us.amazon.nova-lite-v1:0">>
FoundationArn ==
  <<"arn:aws:bedrock:", "us-east-1:", ":foundation-model/", "amazon.nova-lite-v1:0">>
GovProfileArn ==
  <<"arn:aws-us-gov:bedrock:", "us-gov-west-1:111122223333", ":inference-profile/", "us.amazon.nova-lite-v1:0">>

Envs ==
  { [NOVA_MODEL_ID |-> Str(PlainModelId), AWS_REGION |-> Undefined, DEMO_API_KEY |-> Undefined],
    [NOVA_MODEL_ID |-> Str(ProfileArn), AWS_REGION |-> Str(<<"us-west-2">>), DEMO_API_KEY |-> Str(<<"secret">>)],
    [NOVA_MODEL_ID |-> Str(FoundationArn), AWS_REGION |-> Undefined, DEMO_API_KEY |-> Undefined],
    [NOVA_MODEL_ID |-> Str(GovProfileArn), AWS_REGION |-> Undefined, DEMO_API_KEY |-> Undefined],
    [NOVA_MODEL_ID |-> Undefined, AWS_REGION |-> Undefined, DEMO_API_KEY |-> Undefined] }

\* The x-demo-api-key header of a request.
Headers == {Undefined, Str(<<"secret">>)}

Entry(role, content) == [k |-> "obj", role |-> role, content |-> content]

\* Request bodies: goal, context and messages.
Bodies ==
  { [goal |-> Str(<<"Ship the demo">>), context |-> Undefined, messages |-> Undefined],
    [ goal |-> Str(<<" ", "Ship the demo", "\n">>), context |-> Str(<<"Three minutes", " ">>),
      messages |-> [ k |-> "arr",
                     items |-> << Entry(Str(<<"user">>), Str(<<"hi">>)),
                                  Entry(Str(<<"assistant">>), Str(<<" ">>)),
                                  Null,
                                  Entry(Str(<<"system">>), Str(<<"be brief">>)),
                                  Entry(Str(<<"assistant">>), Str(<<"hello", " ">>)),
                                  Entry(Str(<<"user">>), Str(<<"q1">>)),
                                  Entry(Str(<<"assistant">>), Str(<<"a1">>)),
                                  Entry(Str(<<"user">>), Str(<<"q2">>)),
                                  Entry(Str(<<"assistant">>), Num(<<"5">>)),
                                  Entry(Str(<<"assistant">>), Str(<<"a2">>)),
                                  Entry(Str(<<"user">>), Str(<<"q3">>)),
                                  Entry(Str(<<"assistant">>), Str(<<"a3">>)),
                                  Entry(Str(<<"user">>), Str(<<"\n", "q4">>)),
                                  Entry(Str(<<"assistant">>), Str(<<"a4">>)),
                                  Entry(Str(<<"user">>), Str(<<"q5">>)),
                                  Entry(Str(<<"assistant">>), Str(<<"a5">>)),
                                  Entry(Str(<<"user">>), Str(<<"q6">>)) >> ] ],
    [goal |-> Undefined, context |-> Undefined, messages |-> Undefined],
    [goal |-> Str(<<" ", "\n">>), context |-> Undefined, messages |-> Undefined] }

ToolNames == {"makePlan", "retrieve", "writeDraft"}

ToolMember(T) ==
  CASE T = "makePlan" -> "\"tool\":\"makePlan\""
    [] T = "retrieve" -> "\"tool\":\"retrieve\""
    [] OTHER -> "\"tool\":\"writeDraft\""

ActionMember(T) ==
  CASE T = "makePlan" -> "\"action\":\"makePlan\""
    [] T = "retrieve" -> "\"action\":\"retrieve\""
    [] OTHER -> "\"action\":\"writeDraft\""

NoInput == ""
InputPart(I) == IF I = NoInput THEN << >> ELSE <<",", I>>

\* The canonical and the compact text of a tool decision.
Canonical(T, I) == <<"{", "\"action\":\"tool\"", ",", ToolMember(T)>> \o InputPart(I) \o <<"}">>
Compact(T, I) == <<"{", ActionMember(T)>> \o InputPart(I) \o <<"}">>

FinalX == <<"{", "\"action\":\"final\"", ",", "\"output\":\"x\"", "}">>

\* Further inputs of retrieve decisions, which the backend produces in the
\* last turn of a run: a query with a repeated word, capitals and
\* punctuation, a query without any word, a query that no document matches,
\* a query that the last document matches best, and a number.
RetrieveInputs ==
  { "\"input\":\"Demo, demo VIDEO!\"", "\"input\":\"!\"", "\"input\":\"zebra\"",
    "\"input\":\"best practices nova\"", "\"input\":3" }

ToolTexts ==
  {Canonical(T, I) : T \in ToolNames, I \in {"\"input\":\"demo video\"", NoInput}}
    \cup {Compact(T, I) : T \in ToolNames, I \in {"\"input\":\"demo video\"", NoInput}}
    \cup {Compact("writeDraft", "\"input\":3"), Canonical("retrieve", "\"input\":\"nova\"")}

FinalTexts ==
  { FinalX,
    <<Fence, "json", "\n">> \o FinalX \o <<"\n", Fence>>,
    <<Fence, "\n">> \o FinalX \o <<"\n", Fence, "\n">>,
    <<"Here is my answer:", " ">> \o FinalX \o <<" ", "Done.">>,
    <<"See", " ", "[", "5", "]", " ", "then", " ">> \o FinalX,
    <<"{", "\"action\":\"final\"", ",", "\"output\":5", "}">>,
    <<"{", "\"action\":\"final\"", ",", "\"output\":null", "}">>,
    <<"{", "\"action\":\"final\"", "}">> }

FailingTexts ==
  { <<"{", "\"action\":\"tool\"", ",", "\"tool\":\"deleteAll\"", ",", "\"input\":\"nova\"", "}">>,
    <<"{", "\"action\":\"tool\"", "}">>,
    <<"{", "\"action\":\"deleteAll\"", "}">>,
    <<"{", "\"action\":null", "}">>,
    <<"{", "\"output\":\"x\"", "}">>,
    <<"{", "}">>,
    <<"[", "]">>,
    <<"5">>,
    <<"I cannot answer that.">>,
    <<"{", "\"action\":\"final\"", ",">>,
    <<"Result:", " ", "[", "5", "]", " ", "ok">>,
    <<"oops", " ", "}", " ", "{">>,
    <<"}", " ", "[", "5", "]", " ", "{">>,
    <<"First", " ">> \o FinalX \o <<" ", "or", " ">> \o FinalX }

ModelTexts == ToolTexts \cup FinalTexts \cup FailingTexts

\* After the first RichTurns turns the only tool decisions that the backend
\* produces and that let the run go on are writeDraft, makePlan and
\* retrieve in rotation; every text that ends the run stays possible.
FillerText(t) ==
  IF t % 3 = 0 THEN Compact("writeDraft", "\"input\":3")
  ELSE IF t % 3 = 1 THEN Canonical("makePlan", "\"input\":\"demo video\"")
  ELSE Canonical("retrieve", "\"input\":\"nova\"")

CoreTexts(t) ==
  {FillerText(t)}
    \cup {Canonical("retrieve", NoInput), Compact("retrieve", NoInput)}
    \cup (IF t = maxTurns - 1 THEN {Canonical("retrieve", I) : I \in RetrieveInputs} ELSE {})
    \cup FinalTexts \cup FailingTexts

\* With two requests in the server the backend produces, in every turn, the
\* tool decision of the rotation, a Final decision or a text that is no
\* decision; in turn 0 also a makePlan decision with another input.
ConcurrentTexts(t) ==
  {FillerText(t), FinalX, <<"I cannot answer that.">>}
    \cup (IF t = 0 THEN {Compact("makePlan", "\"input\":\"demo video\"")} ELSE {})

\* The texts the backend may produce in turn t.
TextsOfTurn(t) ==
  IF parked # NoRun THEN ConcurrentTexts(t)
  ELSE IF t < RichTurns THEN ModelTexts ELSE CoreTexts(t)

Block(text) == [k |-> "obj", text |-> Str(text)]
BlockWithoutText == [k |-> "obj", text |-> Absent]

\* The content blocks of the Converse responses of turn t: one block with
\* the text, the text split over two blocks around a block without text,
\* no block, and a block without text before a block with the empty text.
ConverseContents(t) ==
  {<<Block(text)>> : text \in TextsOfTurn(t)}
    \cup (IF parked # NoRun THEN {<< >>}
          ELSE { <<Block(<<"{", "\"action\":\"final\"", ",">>), BlockWithoutText, Block(<<"\"output\":\"x\"", "}">>)>>,
                 << >>, <<BlockWithoutText, Block(<< >>)>> })

InvokeJson(content, outputText, generation, completion, text) ==
  [ content |-> content, outputText |-> outputText, generation |-> generation,
    completion |-> completion, text |-> text ]

Content(parts) == [k |-> "arr", parts |-> parts]

\* The bodies of the InvokeModel responses of turn t.
InvokeResponses(t) ==
  {[valid |-> TRUE, json |-> InvokeJson(Content(<<Block(text)>>), Absent, Absent, Absent, Absent)] :
     text \in TextsOfTurn(t)}
    \cup (IF parked # NoRun THEN {} ELSE
         { [valid |-> TRUE, json |-> InvokeJson(Absent, Str(FinalX), Absent, Absent, Absent)],
           [valid |-> TRUE, json |-> InvokeJson(Absent, Str(<< >>), Str(FinalX), Absent, Absent)],
           [valid |-> TRUE, json |-> InvokeJson(Content(<< >>), Absent, Absent, Str(FinalX), Str(<<"5">>))],
           [valid |-> TRUE, json |-> InvokeJson(Absent, Num(<<"5">>), Absent, Absent, Str(FinalX))],
           [valid |-> TRUE, json |-> InvokeJson(Content(<<Block(<< >>)>>), Absent, Absent, Absent, Str(<< >>))],
           [valid |-> FALSE, json |-> InvokeJson(Absent, Absent, Absent, Absent, Absent)] })

\* The errors with which client.send may reject.
BackendErrors ==
  { ServiceException(<<"ValidationException">>, <<"Operation not allowed">>, <<"400">>),
    ServiceException(<<"ValidationException">>, <<"Invocation failed: ", "operation not allowed", " for this model">>, <<"400">>),
    ServiceException(<<"ValidationException">>, <<"Malformed input request">>, <<"400">>),
    ServiceException(<<"AccessDeniedException">>, <<"Operation not allowed">>, <<"403">>),
    ServiceException(<<"ThrottlingException">>, <<"Too many requests">>, <<"429">>) }

\* The errors with which client.send rejects in the model: with two
\* requests in the server, one error that makes the call fall back and
\* one that fails the run.
Rejections ==
  IF parked = NoRun THEN BackendErrors
  ELSE { ServiceException(<<"ValidationException">>, <<"Operation not allowed">>, <<"400">>),
         ServiceException(<<"ThrottlingException">>, <<"Too many requests">>, <<"429">>) }

(***************************************************************************)
(* The page (client App): runAgent, stop                                   *)
(***************************************************************************)
\* The goals typed into the page.
ClientGoals == {<<"Ship the demo">>, <<" ">>}

\* The messages with which fetch rejects after abort(), by browser.
AbortMessages ==
  { <<"The user ", "aborted", " a request.">>,
    <<"The operation was ", "aborted", ". ">>,
    <<"signal is ", "aborted", " without reason">>,
    <<"Fetch is ", "aborted">> }

\* The catch test comparing the whole message.
isAbortMessageWholeMessage(msg) == msg = <<"aborted">>

\* msg.toLowerCase().includes('aborted')
isAbortMessage(msg) == \E i \in 1..Len(msg) : msg[i] \in {"aborted", "Aborted", "ABORTED"}

SorryPrefix == <<"Sorry - I couldn't complete that request.", "\n", "\n", "Error: ">>

IsPlaceholder(m) == m.role = <<"assistant">> /\ m.content = << >>

\* The setChat updater of runAgent: the last assistant entry with empty
\* content gets the content, or a new assistant entry is appended.
fillPlaceholder(chat, content) ==
  LET holes == {i \in 1..Len(chat) : IsPlaceholder(chat[i])}
  IN  IF holes = {} THEN Append(chat, [role |-> <<"assistant">>, content |-> content])
      ELSE [chat EXCEPT ![CHOOSE i \in holes : \A j \in holes : i >= j].content = content]

HasText(m) == trim(m.content) # << >>

\* The history that runAgent sends: the entries of chat with text, the
\* last 12 of them.
clientHistory(chat) ==
  LET kept == sliceLast(SelectSeq(chat, HasText), HistoryMax)
  IN  [i \in 1..Len(kept) |-> Entry(Str(kept[i].role), Str(kept[i].content))]

\* The catch and finally blocks of runAgent for an error with message msg.
catchRunAgent(c, msg) ==
  [c EXCEPT !.phase = "settled",
            !.error = Str(IF isAbortMessage(msg) THEN <<"Request aborted.">> ELSE msg),
            !.chat = fillPlaceholder(c.chat, SorryPrefix \o msg)]

\* The request that reaches the handler: from the page when there is one,
\* else from any caller.
ArrivingBodies == IF client = NoClient THEN Bodies ELSE {client.sent}
ArrivingHeaders == IF client = NoClient /\ parked = NoRun THEN Headers ELSE {Undefined}

(***************************************************************************)
(* The state machine                                                       *)
(***************************************************************************)
\* The server before a request arrives.
ServerInit ==
  /\ env \in Envs
  /\ pc = "idle"
  /\ turn = 0
  /\ steps = << >>
  /\ messages = << >>
  /\ toolCtx = createToolContext
  /\ response = NoResponse
  /\ modelCalls = 0
  /\ requests = << >>
  /\ caught = None
  /\ thrown = None
  /\ event = NoEvent

Init ==
  /\ ServerInit
  /\ client = NoClient
  /\ parked = NoRun

\* A response sent before the run starts.
Reject(status, error) ==
  /\ response' = [status |-> status, body |-> [error |-> error]]
  /\ pc' = "done"
  /\ UNCHANGED <<env, turn, steps, messages, toolCtx, modelCalls, requests, caught, thrown>>

\* The handler from the arrival of the request to its first await. The
\* request of the page arrives while its fetch is pending.
PostAgent ==
  /\ pc = "idle"
  /\ client.phase \in {"none", "fetching"}
  /\ UNCHANGED <<client, parked>>
  /\ \E header \in ArrivingHeaders, body \in ArrivingBodies :
       /\ event' = [kind |-> "request", header |-> header, body |-> body]
       /\ LET goal == IF body.goal.k = "str" THEN trim(body.goal.v) ELSE << >>
              context == IF body.context.k = "str" THEN trim(body.context.v) ELSE << >>
              history == retainHistory(body.messages)
          IN  IF ~Falsy(env.DEMO_API_KEY) /\ header # env.DEMO_API_KEY
              THEN Reject(401, <<"Unauthorized">>)
              ELSE IF isMissingGoal(goal)
              THEN Reject(400, <<"Missing required field: goal">>)
              ELSE IF Falsy(env.NOVA_MODEL_ID)
              THEN Reject(500, <<"Missing NOVA_MODEL_ID. Set it in your server environment (and ensure Bedrock model access is enabled).">>)
              ELSE LoopHead(0, << >>, Append(history, goalTurn(goal, context)), createToolContext)

\* The catch block of novaConverseText.
ConverseCatch(err) ==
  IF shouldFallback(err)
  THEN /\ pc' = "awaitInvoke"
       /\ requests' = Append(requests, request("InvokeModel", messages))
       /\ caught' = err
       /\ UNCHANGED <<env, turn, steps, messages, toolCtx, response, modelCalls, thrown>>
  ELSE Catch(err, steps, messages, toolCtx, err)

\* client.send of the ConverseCommand resolves.
ConverseResolves ==
  /\ pc = "awaitConverse"
  /\ UNCHANGED <<client, parked>>
  /\ \E parts \in ConverseContents(turn) :
       /\ event' = [kind |-> "converse", parts |-> parts]
       /\ LET r == converseResult(parts)
          IN  IF r.threw THEN ConverseCatch(r.err) ELSE LoopBody(r.text)

\* client.send of the ConverseCommand rejects.
ConverseRejects ==
  /\ pc = "awaitConverse"
  /\ UNCHANGED <<client, parked>>
  /\ \E err \in Rejections :
       /\ event' = [kind |-> "rejected", err |-> err]
       /\ ConverseCatch(err)

\* client.send of the InvokeModelCommand resolves.
InvokeResolves ==
  /\ pc = "awaitInvoke"
  /\ UNCHANGED <<client, parked>>
  /\ \E resp \in InvokeResponses(turn) :
       /\ event' = [kind |-> "invoke", resp |-> resp]
       /\ LET r == invokeModelFallbackResult(resp)
          IN  IF r.threw THEN Catch(r.err, steps, messages, toolCtx, caught) ELSE LoopBody(r.text)

\* client.send of the InvokeModelCommand rejects.
InvokeRejects ==
  /\ pc = "awaitInvoke"
  /\ UNCHANGED <<client, parked>>
  /\ \E err \in Rejections :
       /\ event' = [kind |-> "rejected", err |-> err]
       /\ Catch(err, steps, messages, toolCtx, caught)

Next ==
  \/ PostAgent
  \/ ConverseResolves
  \/ ConverseRejects
  \/ InvokeResolves
  \/ InvokeRejects

Spec == Init /\ [][Next]_vars

\* runAgent up to its await of fetch.
runAgent ==
  /\ client.phase = "ready"
  /\ \E goal \in ClientGoals :
       LET trimmedGoal == trim(goal)
       IN  IF trimmedGoal = << >>
           THEN client' = [client EXCEPT !.error = Str(<<"Goal is required.">>)]
           ELSE client' = [ phase |-> "fetching",
                            sent |-> [ goal |-> Str(trimmedGoal), context |-> Undefined,
                                       messages |-> [k |-> "arr", items |-> clientHistory(client.chat)] ],
                            error |-> Null, result |-> Null, aborted |-> FALSE,
                            chat |-> client.chat \o << [role |-> <<"user">>, content |-> trimmedGoal],
                                                       [role |-> <<"assistant">>, content |-> << >>] >> ]
  /\ UNCHANGED <<serverVars, parked>>

\* stop() during the request: abort() on the controller of the run; fetch
\* rejects and runAgent goes through catch and finally.
stop ==
  /\ client.phase = "fetching"
  /\ \E msg \in AbortMessages : client' = catchRunAgent([client EXCEPT !.aborted = TRUE], msg)
  /\ UNCHANGED <<serverVars, parked>>

\* The response of the handler reaches the page: fetch and resp.json()
\* resolve and runAgent runs to its end.
fetchResolves ==
  /\ client.phase = "fetching"
  /\ response # NoResponse
  /\ IF response.status = 200
     THEN client' = [client EXCEPT !.phase = "settled",
                                   !.result = response.body,
                                   !.chat = fillPlaceholder(client.chat, response.body.final)]
     ELSE client' = catchRunAgent(client, response.body.error)
  /\ UNCHANGED <<serverVars, parked>>

\* The page and the server behind it.
ClientInit ==
  /\ ServerInit
  /\ Falsy(env.DEMO_API_KEY)
  /\ env.NOVA_MODEL_ID \in {Str(PlainModelId), Undefined}
  /\ client = [phase |-> "ready", error |-> Null, result |-> Null, aborted |-> FALSE, chat |-> << >>]
  /\ parked = NoRun

ClientNext ==
  \/ runAgent
  \/ stop
  \/ fetchResolves
  \/ PostAgent
  \/ ConverseResolves
  \/ ConverseRejects
  \/ InvokeResolves
  \/ InvokeRejects

ClientSpec == ClientInit /\ [][ClientNext]_vars

\* The locals of the handler and of novaConverseText for one request.
runState ==
  [ pc |-> pc, turn |-> turn, steps |-> steps, messages |-> messages, toolCtx |-> toolCtx,
    response |-> response, modelCalls |-> modelCalls, requests |-> requests,
    caught |-> caught, thrown |-> thrown, event |-> event ]

\* A suspended handler resuming with a Tool Context that lives outside the
\* handler: it finds the context as the other request left it.
resumeWithSharedToolContext(run) == [run EXCEPT !.toolCtx = toolCtx]

\* A suspended handler resumes with the locals it was suspended with.
resume(run) == run

\* The event loop turns from the handler of one request, suspended in an
\* await or finished, to the suspended handler of the other request.
Switch ==
  /\ parked # NoRun
  /\ parked.pc # "done"
  /\ parked' = runState
  /\ LET run == resume(parked)
     IN  /\ pc' = run.pc
         /\ turn' = run.turn
         /\ steps' = run.steps
         /\ messages' = run.messages
         /\ toolCtx' = run.toolCtx
         /\ response' = run.response
         /\ modelCalls' = run.modelCalls
         /\ requests' = run.requests
         /\ caught' = run.caught
         /\ thrown' = run.thrown
         /\ event' = run.event
  /\ UNCHANGED <<env, client>>

\* Two requests in one server process.
ConcurrentInit ==
  /\ ServerInit
  /\ env.NOVA_MODEL_ID = Str(PlainModelId)
  /\ client = NoClient
  /\ parked = runState

ConcurrentNext ==
  \/ Switch
  \/ PostAgent
  \/ ConverseResolves
  \/ ConverseRejects
  \/ InvokeResolves
  \/ InvokeRejects

ConcurrentSpec == ConcurrentInit /\ [][ConcurrentNext]_vars

FairSpec ==
  /\ Spec
  /\ WF_vars(ConverseResolves \/ ConverseRejects)
  /\ WF_vars(InvokeResolves \/ InvokeRejects)

(***************************************************************************)
(* Properties                                                              *)
(***************************************************************************)
IsModelStep(s) == s.type = "model"
ModelStepCount(ss) == Len(SelectSeq(ss, IsModelStep))
IsPrefix(a, b) == Len(a) <= Len(b) /\ SubSeq(b, 1, Len(a)) = a
Last(ss) == ss[Len(ss)]

\* The run entered the turn loop.
Started == modelCalls >= 1

\* The three outcomes of a started run.
Succeeded == Started /\ response.status = 200
Failed ==
  /\ Started
  /\ response.status = 500
  /\ response.body.steps # << >>
  /\ Last(response.body.steps).type = "error"
BudgetExceeded ==
  /\ Started
  /\ response.status = 500
  /\ response.body.error = BudgetErrorMessage

\* The decision that a model text decodes to, in the terms of the claims.
DecisionOf(text) == safeJsonParse(text)
ToolNameValues == {Str(<<"makePlan">>), Str(<<"retrieve">>), Str(<<"writeDraft">>)}
IsFinalDecision(d) == d.k = "obj" /\ d.m.action = Str(<<"final">>)
IsCanonicalToolDecision(d) ==
  d.k = "obj" /\ d.m.action = Str(<<"tool">>) /\ d.m.tool \in ToolNameValues
IsCompactToolDecision(d) == d.k = "obj" /\ d.m.action \in ToolNameValues
IsValidToolDecision(d) == IsCanonicalToolDecision(d) \/ IsCompactToolDecision(d)

\* The transition appends a Model step; NewText is its text.
ModelTextArrives == Len(steps') > Len(steps) /\ steps'[Len(steps) + 1].type = "model"
NewText == steps'[Len(steps) + 1].output

\* C1: in every run the model client is invoked at most 8 times and the
\* transcript never holds more than 8 Model steps.
C1_TurnBudget == modelCalls <= 8 /\ ModelStepCount(steps) <= 8

\* A run that used all 8 invocations.
C1_Witness == modelCalls = 8 /\ ModelStepCount(steps) = 8 /\ pc = "done"

\* C2: provided every backend request is eventually answered, a started run
\* eventually reaches exactly one of success, failure with an Error step,
\* and turn budget exceeded.
C2_Terminates ==
  (pc \in {"awaitConverse", "awaitInvoke"})
    ~> ( \/ (Succeeded /\ ~Failed /\ ~BudgetExceeded)
         \/ (Failed /\ ~Succeeded /\ ~BudgetExceeded)
         \/ (BudgetExceeded /\ ~Succeeded /\ ~Failed) )

\* A run that ended by exhausting its turns, after eight answered requests.
C2_Witness == pc = "done" /\ BudgetExceeded /\ ~Failed /\ turn = maxTurns

\* C3 (as claimed): in a run of valid tool decisions (canonical or compact,
\* with any input) followed by a Final decision within 8 turns, no tool
\* decision fails the run, and the Final decision (its output a string, as
\* in the ModelDecision type) makes the run succeed with final equal to
\* its output member.
C3_ToolsThenFinalSucceeds ==
  /\ ~( /\ Len(steps) >= 2
        /\ Last(steps).type = "error"
        /\ steps[Len(steps) - 1].type = "model"
        /\ IsValidToolDecision(DecisionOf(steps[Len(steps) - 1].output)) )
  /\ ( /\ pc = "done"
       /\ steps # << >>
       /\ Last(steps).type = "model"
       /\ IsFinalDecision(DecisionOf(Last(steps).output))
       /\ DecisionOf(Last(steps).output).m.output.k = "str" )
     => ( /\ response.status = 200
          /\ Str(response.body.final) = DecisionOf(Last(steps).output).m.output )

\* The text cannot be decoded into a decision: the parse fails, or the
\* value is not an object or has no action member.
Undecodable(text) ==
  LET r == JSONparse(extractJsonObject(text))
  IN  r.threw \/ r.val.k # "obj" \/ r.val.m.action.k = "absent"

\* C4: an undecodable model text adds exactly one Model step with the raw
\* text and directly after it exactly one Error step, the run fails with
\* the decision error, and no model invocation follows.
C4_UndecodableText ==
  /\ [][ (ModelTextArrives /\ Undecodable(NewText))
           => ( /\ steps' = steps \o << [type |-> "model", output |-> NewText],
                                        [type |-> "error", message |-> DecisionErrorMessage] >>
                /\ response'.status = 500
                /\ response'.body.error = DecisionErrorMessage
                /\ modelCalls' = modelCalls
                /\ pc' = "done" ) ]_vars
  /\ [](pc = "done" => ~ENABLED Next)

\* A run that failed on an undecodable text after a completed tool turn.
C4_Witness ==
  /\ pc = "done"
  /\ Len(steps) >= 4
  /\ Last(steps) = [type |-> "error", message |-> DecisionErrorMessage]
  /\ steps[Len(steps) - 1].type = "model"
  /\ Undecodable(steps[Len(steps) - 1].output)

\* A decision with action tool whose tool is none of the three tools.
NamesUnknownTool(text) ==
  LET d == DecisionOf(text)
  IN  d.k = "obj" /\ d.m.action = Str(<<"tool">>) /\ ~(d.m.tool \in ToolNameValues)

\* C5: a decision naming a tool outside the three tools fails the run with
\* the unknown-tool error, adds no Tool step and leaves the Tool Context as
\* it was.
C5_UnknownTool ==
  [][ (ModelTextArrives /\ NamesUnknownTool(NewText))
        => ( /\ pc' = "done"
             /\ response'.status = 500
             /\ Head(response'.body.error) = "Unknown or missing tool: "
             /\ Len(steps') = Len(steps) + 2
             /\ steps'[Len(steps) + 2] = [type |-> "error", message |-> response'.body.error]
             /\ toolCtx' = toolCtx ) ]_vars

\* A run failed on the tool deleteAll after tools had filled plan and draft.
C5_Witness ==
  /\ pc = "done"
  /\ response.status = 500
  /\ response.body.error = <<"Unknown or missing tool: ", "deleteAll">>
  /\ toolCtx.plan # << >>
  /\ toolCtx.draft # Str(<< >>)

\* C6: when 8 turns end without a Final decision the run ends with the
\* turn-budget failure, which is never the decision error and is reported
\* by no other failure, and the response holds the whole transcript.
C6_BudgetExceeded ==
  /\ (pc = "done" /\ turn = 8)
       => ( /\ response.status = 500
            /\ response.body.error = BudgetErrorMessage
            /\ response.body.error # DecisionErrorMessage
            /\ response.body.steps = steps
            /\ Len(steps) = 16
            /\ \A i \in 1..16 : steps[i].type = (IF i % 2 = 1 THEN "model" ELSE "tool") )
  /\ (Started /\ response.status = 500 /\ response.body.error = BudgetErrorMessage) => turn = 8

\* A run that ended after its eighth tool turn.
C6_Witness == pc = "done" /\ turn = 8 /\ Len(response.body.steps) = 16

\* C7: the response of every failed run that entered the loop holds all
\* steps accumulated before the failure, in their order and unaltered.
C7_FailureKeepsSteps ==
  [][ (Started /\ response = NoResponse /\ response'.status = 500)
        => ( /\ "steps" \in DOMAIN response'.body
             /\ response'.body.steps = steps'
             /\ IsPrefix(steps, response'.body.steps) ) ]_vars

\* A run that failed with a backend error after at least one tool turn.
C7_Witness ==
  /\ pc = "done"
  /\ Failed
  /\ thrown \in BackendErrors
  /\ Len(response.body.steps) >= 3

\* C8 (as claimed): the response of every failed run that entered the loop
\* has the members error, details, hint and steps.
C8_FailureShape ==
  (Started /\ response.status = 500)
    => {"error", "details", "hint", "steps"} \subseteq DOMAIN response.body

\* The model id of the process is an inference-profile identifier.
ProfileModelId ==
  /\ env.NOVA_MODEL_ID.k = "str"
  /\ Head(env.NOVA_MODEL_ID.v) = "arn:aws:bedrock:"
  /\ \E i \in 1..Len(env.NOVA_MODEL_ID.v) : env.NOVA_MODEL_ID.v[i] = ":inference-profile/"

\* A validation error whose message, in lower case, contains
\* operation not allowed.
OperationNotAllowed(err) ==
  /\ err.k = "error"
  /\ err.name = Str(<<"ValidationException">>)
  /\ \E i \in 1..Len(err.message.v) : LowerMsg(err.message.v[i]) = "operation not allowed"

\* C9: for a model id that is no inference profile, one converse call sends
\* at most 2 requests; the second is the single-call request and is sent
\* only after the structured one failed with an operation-not-allowed
\* validation error; every other structured failure reaches the handler
\* unchanged with no second request.
C9_FallbackOnce ==
  (requests # << >> /\ ~ProfileModelId)
    => ( /\ Len(requests) <= 2
         /\ requests[1].api = "Converse"
         /\ Len(requests) = 2 => (requests[2].api = "InvokeModel" /\ OperationNotAllowed(caught))
         /\ (caught # None /\ ~OperationNotAllowed(caught))
              => (Len(requests) = 1 /\ pc = "done" /\ thrown = caught)
         /\ (caught # None /\ OperationNotAllowed(caught)) => Len(requests) = 2 )

\* A call whose fallback request failed and was not retried.
C9_Witness ==
  /\ ~ProfileModelId
  /\ Len(requests) = 2
  /\ pc = "done"
  /\ thrown \in BackendErrors
  /\ OperationNotAllowed(caught)

\* C10: with an inference-profile model id a converse call sends the
\* single-call request only; with every other model id the first request
\* of the call is the structured one.
C10_ProtocolSelection ==
  requests # << >>
    => IF ProfileModelId
       THEN Len(requests) = 1 /\ requests[1].api = "InvokeModel"
       ELSE requests[1].api = "Converse"

\* The second converse call of a run with an inference-profile model id.
C10_Witness ==
  /\ ProfileModelId
  /\ modelCalls >= 2
  /\ pc = "awaitInvoke"
  /\ Len(requests) = 1
  /\ requests[1].api = "InvokeModel"

\* The backend answered and no text can be taken from the answer: every
\* content block of a Converse answer lacks a text or has the empty text;
\* no candidate of an InvokeModel body holds a non-empty string.
NoTextIn(v) == v.k # "str" \/ v.v = << >>
EmptyAnswer ==
  \/ /\ event.kind = "converse"
     /\ \A i \in 1..Len(event.parts) : NoTextIn(event.parts[i].text)
  \/ /\ event.kind = "invoke"
     /\ event.resp.valid
     /\ event.resp.json.content.k = "arr"
          => \A i \in 1..Len(event.resp.json.content.parts) :
                NoTextIn(event.resp.json.content.parts[i].text)
     /\ NoTextIn(event.resp.json.outputText)
     /\ NoTextIn(event.resp.json.generation)
     /\ NoTextIn(event.resp.json.completion)
     /\ NoTextIn(event.resp.json.text)

\* C11: under both protocols an answer without text makes the converse call
\* fail with the empty-response error and adds no Model step, and no Model
\* step of any transcript has the empty output.
C11_EmptyTextFails ==
  /\ \A i \in 1..Len(steps) : steps[i].type = "model" => steps[i].output # << >>
  /\ EmptyAnswer
       => ( /\ pc = "done"
            /\ response.status = 500
            /\ thrown.message.v
                 = (IF event.kind = "converse"
                    THEN <<"Empty model response from Bedrock Converse API">>
                    ELSE <<"Empty model response from Bedrock InvokeModel API">>)
            /\ Last(steps).type = "error"
            /\ ModelStepCount(steps) = modelCalls - 1 )

\* The fallback request of a later turn was answered without text.
C11_Witness ==
  /\ EmptyAnswer
  /\ event.kind = "invoke"
  /\ Len(requests) = 2
  /\ modelCalls >= 2
  /\ pc = "done"

\* The candidates of an InvokeModel body in their order, each as the string
\* it holds (the empty string when it holds none).
CandidateText(v) == IF v.k = "str" THEN v.v ELSE << >>
Candidates(json) ==
  << IF json.content.k = "arr" THEN joinParts(json.content.parts) ELSE << >>,
     CandidateText(json.outputText), CandidateText(json.generation),
     CandidateText(json.completion), CandidateText(json.text) >>
FirstNonEmpty(cs) ==
  IF \A i \in 1..Len(cs) : cs[i] = << >> THEN << >>
  ELSE cs[CHOOSE i \in 1..Len(cs) : cs[i] # << >> /\ \A j \in 1..(i - 1) : cs[j] = << >>]
ModelOutputs == SelectSeq(steps, IsModelStep)

\* C12 (as claimed): the text of an InvokeModel answer is the first
\* candidate, in the order content blocks, outputText, generation,
\* completion, text, that is a non-empty string; an earlier empty candidate
\* does not keep a later non-empty one from being returned.
C12_FirstNonEmptyCandidate ==
  (event.kind = "invoke" /\ event.resp.valid /\ FirstNonEmpty(Candidates(event.resp.json)) # << >>)
    => ( /\ thrown # EmptyInvokeError
         /\ ModelOutputs # << >>
         /\ Last(ModelOutputs).output = FirstNonEmpty(Candidates(event.resp.json)) )

\* The goal of the request is missing, no string, or blank.
GoalMissing(body) ==
  body.goal.k # "str" \/ \A i \in 1..Len(body.goal.v) : IsSpace(body.goal.v[i])

\* C20: a request whose goal is missing or blank, or that arrives when no
\* model id is configured, is answered at once with an error: no model
\* call, no backend request, no tool call and no step.
C20_RejectedAtOnce ==
  (event.kind = "request" /\ (GoalMissing(event.body) \/ env.NOVA_MODEL_ID.k # "str"))
    => ( /\ pc = "done"
         /\ response.status \in {400, 401, 500}
         /\ response.status = 400 => GoalMissing(event.body)
         /\ DOMAIN response.body = {"error"}
         /\ modelCalls = 0
         /\ requests = << >>
         /\ steps = << >>
         /\ messages = << >>
         /\ toolCtx = createToolContext )

\* A request with a goal was refused for the missing model id.
C20_Witness ==
  /\ event.kind = "request"
  /\ ~GoalMissing(event.body)
  /\ env.NOVA_MODEL_ID.k # "str"
  /\ response.status = 500
  /\ pc = "done"

\* The valid entries of the messages of a request body: objects with role
\* user or assistant and a content that is a string and not blank.
ValidEntry(m) ==
  /\ m.k = "obj"
  /\ m.role \in {Str(<<"user">>), Str(<<"assistant">>)}
  /\ m.content.k = "str"
  /\ \E i \in 1..Len(m.content.v) : ~IsSpace(m.content.v[i])
ValidEntries(body) ==
  IF body.messages.k = "arr" THEN SelectSeq(body.messages.items, ValidEntry) ELSE << >>

\* A string without its leading and trailing white space.
Stripped(str) ==
  LET inked == {i \in 1..Len(str) : ~IsSpace(str[i])}
  IN  IF inked = {} THEN << >>
      ELSE SubSeq(str, CHOOSE i \in inked : \A j \in inked : i <= j,
                       CHOOSE i \in inked : \A j \in inked : i >= j)

\* C15: the messages of the first model request are the last min(12, n) of
\* the n valid entries of the request's messages, in their order (content
\* without surrounding white space), and after them exactly one user turn
\* that carries the goal.
C15_HistoryWindow ==
  (event.kind = "request" /\ pc # "done")
    => LET valid == ValidEntries(event.body)
           n == Len(valid)
           r == IF n < 12 THEN n ELSE 12
           sent == requests[1].messages
       IN  /\ modelCalls = 1
           /\ Len(requests) = 1
           /\ Len(sent) = r + 1
           /\ \A i \in 1..r :
                /\ sent[i].role = valid[n - r + i].role.v
                /\ sent[i].content = <<[text |-> Str(Stripped(valid[n - r + i].content.v))]>>
           /\ sent[r + 1].role = <<"user">>
           /\ Len(sent[r + 1].content) = 1
           /\ IsPrefix(Stripped(event.body.goal.v), sent[r + 1].content[1].text.v)

\* A request with 13 valid entries among its messages started a run.
C15_Witness ==
  /\ event.kind = "request"
  /\ pc # "done"
  /\ Len(ValidEntries(event.body)) = 13
  /\ Len(requests[1].messages) = 13

\* A model call is in flight.
InModelCall == pc \in {"awaitConverse", "awaitInvoke"}

\* The JSON text of a tool output: a member that is undefined is left out.
OutputJson(output) ==
  IF "draft" \in DOMAIN output /\ output.draft = Undefined THEN << >> ELSE output

\* C16: the request of the k-th model call (k = turn) holds the whole
\* history: the turns of the first request, then for each earlier turn the
\* assistant turn with the raw model output and the user turn with the
\* tool name and the tool output as JSON, in order; and the history only
\* grows at its end.
C16_FullHistory ==
  /\ [](InModelCall
         => LET b == Len(messages) - 2 * turn
                sent == requests[Len(requests)].messages
            IN  /\ b >= 1
                /\ messages[b].role = <<"user">>
                /\ Last(messages[b].content.v)
                     = "If needed, start by making a plan, then use tools as needed, then finalize."
                /\ \A j \in 1..turn :
                     /\ messages[b + 2 * j - 1]
                          = [role |-> <<"assistant">>, content |-> Str(steps[2 * j - 1].output)]
                     /\ messages[b + 2 * j].role = <<"user">>
                     /\ messages[b + 2 * j].content.k = "json"
                     /\ messages[b + 2 * j].content.tool = steps[2 * j].call.tool
                     /\ messages[b + 2 * j].content.output = OutputJson(steps[2 * j].output)
                /\ Len(sent) = Len(messages)
                /\ \A i \in 1..Len(messages) :
                     sent[i] = [role |-> messages[i].role, content |-> <<[text |-> messages[i].content]>>])
  /\ [][pc # "idle" => IsPrefix(messages, messages')]_vars

\* The eighth model call of a run with retained history is in flight.
C16_Witness ==
  /\ InModelCall
  /\ turn = 7
  /\ Len(messages) = 12 + 1 + 14
  /\ Len(requests[1].messages) = 27

\* The steps that a transition appends to the transcript.
NewSteps == SubSeq(steps', Len(steps) + 1, Len(steps'))
StepTypes(ss) == [i \in 1..Len(ss) |-> ss[i].type]

\* C19: within a run one activity goes on at a time. While a model call is
\* in flight every earlier turn is complete: the transcript is the Model
\* step and the Tool step of each earlier turn, in turn order, and one
\* backend request is unanswered. A Tool step is recorded only directly
\* after the Model step of the same transition, at most one per
\* transition, and the next model call starts only in that transition.
C19_OneActivity ==
  /\ [](InModelCall
         => /\ Len(steps) = 2 * turn
            /\ \A j \in 1..turn : steps[2 * j - 1].type = "model" /\ steps[2 * j].type = "tool"
            /\ modelCalls = turn + 1
            /\ Len(requests) \in {1, 2})
  /\ [][ /\ IsPrefix(steps, steps')
         /\ StepTypes(NewSteps) \in { << >>, <<"model">>, <<"error">>, <<"model", "error">>,
                                      <<"model", "tool">> }
         /\ modelCalls' # modelCalls
              => (steps = << >> /\ steps' = << >>) \/ StepTypes(NewSteps) = <<"model", "tool">> ]_vars

\* The third model call is in flight after two recorded tool calls.
C19_Witness ==
  /\ InModelCall
  /\ turn = 2
  /\ StepTypes(steps) = <<"model", "tool", "model", "tool">>

\* The Tool steps of the two tools that write the Tool Context.
IsMakePlanStep(st) == st.type = "tool" /\ st.call.tool = <<"makePlan">>
IsWriteDraftStep(st) == st.type = "tool" /\ st.call.tool = <<"writeDraft">>

\* The five-step plan for an input: the input as it reads inside a text.
InputAsText(input) ==
  IF input.k \in {"str", "num"} THEN input.v ELSE <<"undefined">>
ExpectedPlan(input) ==
  << <<"Understand the goal: ">> \o InputAsText(input),
     <<"Retrieve relevant context and constraints">>,
     <<"Propose an approach and key steps">>,
     <<"Draft the output">>,
     <<"Refine and finalize">> >>
PlanOfSteps ==
  LET calls == SelectSeq(steps, IsMakePlanStep)
  IN  IF calls = << >> THEN << >> ELSE ExpectedPlan(Last(calls).call.input)

\* The draft as claimed: the input of the most recent writeDraft call.
DraftOfStepsVerbatim ==
  LET calls == SelectSeq(steps, IsWriteDraftStep)
  IN  IF calls = << >> THEN Str(<< >>) ELSE Last(calls).call.input

\* C17 (as claimed): plan is the five-step plan built from the input of the
\* most recent makePlan call (empty if none) and draft is the input of the
\* most recent writeDraft call (the empty string if none).
C17_ToolContextVerbatim ==
  /\ toolCtx.plan = PlanOfSteps
  /\ toolCtx.draft = DraftOfStepsVerbatim

\* The draft for an input: the input when it is a string, else its JSON
\* text, which for a number is its digits and for a missing input is
\* undefined.
DraftFor(input) ==
  IF input.k = "str" THEN input
  ELSE IF input.k = "num" THEN Str(input.v)
  ELSE Undefined
DraftOfSteps ==
  LET calls == SelectSeq(steps, IsWriteDraftStep)
  IN  IF calls = << >> THEN Str(<< >>) ELSE DraftFor(Last(calls).call.input)

\* C17 (amended): plan is the five-step plan built from the input of the
\* most recent makePlan call (empty if none); draft is the input of the
\* most recent writeDraft call when that input is a string and the JSON
\* text of the input otherwise (the empty string if there was no call);
\* makePlan changes only plan, writeDraft only draft, retrieve neither,
\* and nothing else changes the Tool Context.
C17_ToolContext ==
  /\ [](toolCtx.plan = PlanOfSteps /\ toolCtx.draft = DraftOfSteps)
  /\ [][ LET new == SelectSeq(NewSteps, LAMBDA st : st.type = "tool")
         IN  /\ new = << >> => toolCtx' = toolCtx
             /\ new # << >>
                  => /\ new[1].call.tool = <<"makePlan">> => toolCtx'.draft = toolCtx.draft
                     /\ new[1].call.tool = <<"writeDraft">> => toolCtx'.plan = toolCtx.plan
                     /\ new[1].call.tool = <<"retrieve">> => toolCtx' = toolCtx ]_vars

\* A plan and a draft written from a number are in place after a later
\* retrieve call.
C17_Witness ==
  /\ toolCtx.plan # << >>
  /\ toolCtx.draft = Str(<<"3">>)
  /\ Len(steps) >= 6
  /\ steps[6].type = "tool"
  /\ steps[6].call.tool = <<"retrieve">>

\* The tool calls recorded in a transcript.
IsToolStep(st) == st.type = "tool"
ToolStepCount(ss) == Len(SelectSeq(ss, IsToolStep))

\* The caller aborted the run that is in flight.
Aborted == client.phase # "none" /\ client.aborted

\* C13 (as claimed): once the caller has aborted a run that the handler
\* has started, the run makes no further model call, sends no further
\* backend request, dispatches no further tool and sends no success result.
C13_AbortStopsRun ==
  [][ (Aborted /\ pc # "idle")
        => ( /\ modelCalls' = modelCalls
             /\ Len(requests') <= Len(requests)
             /\ ToolStepCount(steps') = ToolStepCount(steps)
             /\ response'.status # 200 ) ]_vars

\* C14: after stop() during the request the page shows Request aborted.,
\* its result stays unset, the open assistant entry of the chat holds the
\* apology with the abort message, and no entry of the chat holds the
\* final answer that the run produces.
C14_AbortIsCancellation ==
  Aborted
    => ( /\ client.error = Str(<<"Request aborted.">>)
         /\ client.result = Null
         /\ client.phase = "settled"
         /\ Len(client.chat) = 2
         /\ client.chat[2].role = <<"assistant">>
         /\ SubSeq(client.chat[2].content, 1, 4) = SorryPrefix
         /\ response.status = 200
              => \A i \in 1..Len(client.chat) : client.chat[i].content # response.body.final )

\* The run was aborted while a model call was in flight, and the server
\* later answered it with a final result.
C14_Witness ==
  /\ Aborted
  /\ response.status = 200
  /\ modelCalls >= 2
  /\ client.error = Str(<<"Request aborted.">>)

\* The Tool Context, the history and the transcript of a run are those of
\* the run executing alone: the Tool Context is what the run's own makePlan
\* and writeDraft calls wrote, and the history is the run's first request
\* followed by the run's own model outputs and tool results, in order.
RunAlone(run) ==
  LET models == SelectSeq(run.steps, IsModelStep)
      tools == SelectSeq(run.steps, IsToolStep)
      plans == SelectSeq(run.steps, IsMakePlanStep)
      drafts == SelectSeq(run.steps, IsWriteDraftStep)
      b == Len(run.messages) - Len(models) - Len(tools)
  IN  /\ run.toolCtx.plan = (IF plans = << >> THEN << >> ELSE ExpectedPlan(Last(plans).call.input))
      /\ run.toolCtx.draft = (IF drafts = << >> THEN Str(<< >>) ELSE DraftFor(Last(drafts).call.input))
      /\ run.modelCalls = 0 => (run.steps = << >> /\ run.messages = << >>)
      /\ run.modelCalls > 0
           => /\ b >= 1
              /\ Len(models) \in {run.modelCalls - 1, run.modelCalls}
              /\ Len(tools) \in {Len(models) - 1, Len(models)}
              /\ Last(run.messages[b].content.v)
                   = "If needed, start by making a plan, then use tools as needed, then finalize."
              /\ \A j \in 1..Len(models) :
                   run.messages[b + 2 * j - 1]
                     = [role |-> <<"assistant">>, content |-> Str(models[j].output)]
              /\ \A j \in 1..Len(tools) :
                   /\ run.messages[b + 2 * j].role = <<"user">>
                   /\ run.messages[b + 2 * j].content.tool = tools[j].call.tool
                   /\ run.messages[b + 2 * j].content.output = OutputJson(tools[j].output)

\* C18: with two requests interleaved in the server, each run's Tool
\* Context, history and transcript are those of the run executing alone,
\* and a step of one run changes nothing of the other run: the suspended
\* run stays as it is until the event loop turns to it, and it resumes
\* exactly as it was suspended.
C18_RunsIsolated ==
  /\ [](RunAlone(runState) /\ RunAlone(parked))
  /\ [][ \/ parked' = parked
         \/ (parked' = runState /\ runState' = parked) ]_vars

\* Two runs in progress, each past a tool call, with different Tool
\* Contexts and histories.
C18_Witness ==
  /\ parked # NoRun
  /\ InModelCall
  /\ parked.pc \in {"awaitConverse", "awaitInvoke"}
  /\ turn >= 1
  /\ parked.turn >= 1
  /\ toolCtx.plan # parked.toolCtx.plan
  /\ toolCtx.draft # parked.toolCtx.draft
  /\ Len(messages) # Len(parked.messages)

\* The outcome that the three shapes give a parsed value, tested in the
\* order Final, canonical tool call, compact tool call.
ClassOf(d) ==
  IF IsFinalDecision(d) THEN "final"
  ELSE IF IsCanonicalToolDecision(d) THEN "tool"
  ELSE IF IsCompactToolDecision(d) THEN "tool"
  ELSE "failure"
ToolOf(d) == IF IsCanonicalToolDecision(d) THEN d.m.tool.v ELSE d.m.action.v
InputOf(d) == IF d.m.input.k = "absent" THEN Undefined ELSE d.m.input

\* The messages of the three errors that a value of no shape raises.
NoShapeMessages ==
  {DecisionErrorMessage} \cup {<<"Unknown or missing tool: ">>, <<"Unknown model action: ">>}

\* C21: the value parsed from a model text is treated as the three shapes
\* say. A Final decision ends the run with success and runs no tool; a
\* canonical or compact tool decision runs the tool it names with its input
\* (a Tool step of that tool follows the Model step, or the error that the
\* tool raised ends the run); every other value ends the run with a failure
\* raised by the handler, one Error step after the Model step, no tool run
\* and no further model call.
C21_Classification ==
  [][ ModelTextArrives
        => LET d == DecisionOf(NewText)
               new == NewSteps
           IN  /\ ClassOf(d) = "final"
                    => ( /\ response'.status = 200
                         /\ StepTypes(new) = <<"model">>
                         /\ toolCtx' = toolCtx
                         /\ modelCalls' = modelCalls )
               /\ ClassOf(d) = "tool"
                    => \/ /\ StepTypes(new) = <<"model", "tool">>
                          /\ new[2].call = [tool |-> ToolOf(d), input |-> InputOf(d)]
                          /\ response'.status # 200
                       \/ /\ StepTypes(new) = <<"model", "error">>
                          /\ ToolOf(d) = <<"retrieve">>
                          /\ InputOf(d) = Undefined
                          /\ thrown' = TypeErrorUndefined
               /\ ClassOf(d) = "failure"
                    => ( /\ pc' = "done"
                         /\ response'.status = 500
                         /\ StepTypes(new) = <<"model", "error">>
                         /\ thrown'.k = "error"
                         /\ \E m \in NoShapeMessages : IsPrefix(m, thrown'.message.v)
                         /\ new[2].message = thrown'.message.v
                         /\ toolCtx' = toolCtx
                         /\ modelCalls' = modelCalls ) ]_vars

\* A run that, after a completed tool turn, failed on an action that is no
\* shape.
C21_Witness ==
  /\ pc = "done"
  /\ Len(steps) >= 4
  /\ steps[Len(steps) - 2].type = "tool"
  /\ Last(steps) = [type |-> "error", message |-> <<"Unknown model action: ", "deleteAll">>]
  /\ ClassOf(DecisionOf(steps[Len(steps) - 1].output)) = "failure"

\* The model texts of the environment that are not JSON after extraction:
\* prose without braces, an object cut off after a comma, a closing brace
\* before an opening one, and two objects with prose between them.
MalformedTexts ==
  { <<"I cannot answer that.">>, <<"{", "\"action\":\"final\"", ",">>,
    <<"oops", " ", "}", " ", "{">>,
    <<"First", " ">> \o FinalX \o <<" ", "or", " ">> \o FinalX }

\* JSON.parse raises on the substring extracted from the text.
Malformed(text) == JSONparse(extractJsonObject(text)).threw

\* C22: decoding a model text never raises. For every text that arrives,
\* safeJsonParse gives the value parsed from the extracted substring, and
\* null exactly when that substring is no JSON; a malformed text reaches
\* the caller only as the run's decision error, never as a syntax error.
C22_DecodeNeverRaises ==
  [][ ModelTextArrives
        => /\ Malformed(NewText) <=> NewText \in MalformedTexts
           /\ IF Malformed(NewText)
              THEN /\ safeJsonParse(NewText) = Null
                   /\ thrown' = Error(<<"Error">>, DecisionErrorMessage)
                   /\ response'.status = 500
                   /\ response'.body.error = DecisionErrorMessage
                   /\ response'.body.details.name = Str(<<"Error">>)
                   /\ StepTypes(NewSteps) = <<"model", "error">>
              ELSE /\ safeJsonParse(NewText) = JSONparse(extractJsonObject(NewText)).val
                   /\ safeJsonParse(NewText).k \in {"obj", "arr", "num", "str", "null", "bool"}
                   /\ thrown' # BodySyntaxError ]_vars

\* A run that failed on a cut-off object after a completed tool turn.
C22_Witness ==
  /\ pc = "done"
  /\ Len(steps) >= 4
  /\ steps[Len(steps) - 1] = [type |-> "model", output |-> <<"{", "\"action\":\"final\"", ",">>]
  /\ Last(steps) = [type |-> "error", message |-> DecisionErrorMessage]
  /\ thrown.name = Str(<<"Error">>)

\* A text that is one fenced block around the Final decision with output
\* x: with the json tag, and without a tag and followed by a line break.
FencedFinalTexts ==
  { <<Fence, "json", "\n">> \o FinalX \o <<"\n", Fence>>,
    <<Fence, "\n">> \o FinalX \o <<"\n", Fence, "\n">> }

\* C23: a text that is one fenced block, tagged json or not, around the
\* Final decision with output x is extracted to the decision without any
\* fence, the run succeeds with final x, and extracting from the extracted
\* string gives the same string; extraction is idempotent on every model
\* text of the environment.
C23_FenceRemovedIdempotent ==
  [][ ModelTextArrives
        => LET e == extractJsonObject(NewText)
           IN  /\ extractJsonObject(e) = e
               /\ NewText \in FencedFinalTexts
                    => ( /\ e = FinalX
                         /\ \A i \in 1..Len(e) : e[i] # Fence
                         /\ IsFinalDecision(DecisionOf(NewText))
                         /\ DecisionOf(NewText).m.output = Str(<<"x">>)
                         /\ response'.status = 200
                         /\ response'.body.final = <<"x">> ) ]_vars

\* A run that, after a tool turn, succeeded on a fenced Final decision
\* without a tag.
C23_Witness ==
  /\ pc = "done"
  /\ response.status = 200
  /\ Len(steps) >= 3
  /\ Last(steps) = [type |-> "model", output |-> <<Fence, "\n">> \o FinalX \o <<"\n", Fence, "\n">>]
  /\ response.body.final = <<"x">>

\* The words of a string: its maximal runs of atoms that are letters and
\* digits, in lower case, in order.
Words(s) ==
  LET IsWord(i) == ~(s[i] \in Marks)
      starts == {i \in 1..Len(s) : IsWord(i) /\ (i = 1 \/ ~IsWord(i - 1))}
      EndOf(i) == CHOOSE j \in i..Len(s) :
                    (\A n \in i..j : IsWord(n)) /\ (j = Len(s) \/ ~IsWord(j + 1))
      Nth(n) == CHOOSE i \in starts : Cardinality({j \in starts : j < i}) = n - 1
  IN  [n \in 1..Cardinality(starts) |->
         [k \in 1..(EndOf(Nth(n)) - Nth(n) + 1) |-> Lower(s[Nth(n) + k - 1])]]

\* The set of the words of title and text of each document of the corpus.
DocWordSets == [i \in 1..Len(DOCS) |-> SeqToSet(Words(DOCS[i].title \o <<" ">> \o DOCS[i].text))]

\* The score of document i for a query: the number of word occurrences of
\* the query that are words of the document.
ExpectedScore(query, i) ==
  Cardinality({n \in 1..Len(Words(query)) : Words(query)[n] \in DocWordSets[i]})

DocIndex(id) == CHOOSE i \in 1..Len(DOCS) : DOCS[i].id = id
IsRetrieveStep(st) == st.type = "tool" /\ st.call.tool = <<"retrieve">>
QueryOf(st) == InputAsText(st.call.input)

\* The queries of the environment: the inputs of its decisions as text; and
\* for each of them its words, the scores of the documents, and the
\* tokens that the scorer makes of it.
Queries == {InputAsText(Member(a).val) : a \in {b \in MemberAtoms : Member(b).key = "input"}}
WordsOf == [q \in Queries |-> Words(q)]
ScoresOf == [q \in Queries |-> [i \in 1..Len(DOCS) |-> ExpectedScore(q, i)]]
TokensOf == [q \in Queries |-> tokenize(q)]

\* C24: in every retrieve call of a transcript, the score of each hit is
\* the number of word occurrences of the query (a repeated word counted at
\* each occurrence) that are among the words of the document's title and
\* text, query and document being split into lower-case words the same
\* way; every hit has score at least 1, no document with score 0 is a hit,
\* no document is a hit twice, and a query without words has no hits.
C24_Score ==
  \A n \in 1..Len(steps) :
    IsRetrieveStep(steps[n])
      => LET query == QueryOf(steps[n])
             hits == steps[n].output.hits
         IN  /\ query \in Queries
             /\ \A h \in 1..Len(hits) :
                  /\ hits[h].score = ScoresOf[query][DocIndex(hits[h].id)]
                  /\ hits[h].score >= 1
                  /\ \A g \in 1..Len(hits) : hits[g].id = hits[h].id => g = h
             /\ \A i \in 1..Len(DOCS) :
                  ScoresOf[query][i] = 0 => \A h \in 1..Len(hits) : hits[h].id # DOCS[i].id
             /\ WordsOf[query] = << >> => hits = << >>
             /\ TokensOf[query] = WordsOf[query]
             /\ \A i \in 1..Len(DOCS) : TermSets[i] = DocWordSets[i]

\* A retrieve call whose query repeats a word: the repeated word counts
\* twice in the score of the first hit.
C24_Witness ==
  \E n \in 1..Len(steps) :
    /\ IsRetrieveStep(steps[n])
    /\ WordsOf[QueryOf(steps[n])] = << <<"demo">>, <<"demo">>, <<"video">> >>
    /\ Len(steps[n].output.hits) = 2
    /\ steps[n].output.hits[1].score = 3
    /\ steps[n].output.hits[2].score = 2

\* The documents with a score of at least 1 for a query, as indices into
\* the corpus: a document stands after every document of higher score and
\* after every earlier document of equal score.
ExpectedRanking(query) ==
  LET matching == {i \in 1..Len(DOCS) : ScoresOf[query][i] >= 1}
      Before(j, i) ==
        \/ ScoresOf[query][j] > ScoresOf[query][i]
        \/ ScoresOf[query][j] = ScoresOf[query][i] /\ j < i
      At(p) == CHOOSE i \in matching : Cardinality({j \in matching : Before(j, i)}) = p - 1
  IN  [p \in 1..Cardinality(matching) |-> At(p)]

Min(a, b) == IF a < b THEN a ELSE b

\* For each query of the environment its ranking, and what the scorer
\* returns for each limit from 0 to 5.
RankingOf == [q \in Queries |-> ExpectedRanking(q)]
TopOf == [q \in Queries |-> [limit \in 0..RetrieveLimit |-> retrieveImpl(q, limit)]]

\* C25: the hits of every retrieve call of a transcript are the matching
\* documents in the order of non-increasing score, documents of equal
\* score in corpus order, cut to at most 5; for every limit from 0 to 5
\* the scorer returns the first min(limit, matching) hits of that order;
\* and for the query demo video the document that has both words comes
\* first, before every document that has fewer of them.
C25_Ranking ==
  \A n \in 1..Len(steps) :
    IsRetrieveStep(steps[n])
      => LET query == QueryOf(steps[n])
             hits == steps[n].output.hits
             ranking == RankingOf[query]
         IN  /\ Len(hits) = Min(Len(ranking), 5)
             /\ \A h \in 1..Len(hits) : hits[h].id = DOCS[ranking[h]].id
             /\ \A h, g \in 1..Len(hits) :
                  h < g => \/ hits[h].score > hits[g].score
                           \/ /\ hits[h].score = hits[g].score
                              /\ DocIndex(hits[h].id) < DocIndex(hits[g].id)
             /\ \A limit \in 0..RetrieveLimit :
                  /\ Len(TopOf[query][limit]) = Min(limit, Len(ranking))
                  /\ IsPrefix(TopOf[query][limit], hits)
             /\ WordsOf[query] = << <<"demo">>, <<"video">> >>
                  => /\ hits[1].id = "hackathon-submission"
                     /\ hits[1].score = 2
                     /\ \A h \in 2..Len(hits) : hits[h].score < 2

\* A retrieve call whose ranking differs from the corpus order: the third
\* document first, then the first and the second with equal scores; a
\* limit of 2 cuts the second document off.
C25_Witness ==
  \E n \in 1..Len(steps) :
    /\ IsRetrieveStep(steps[n])
    /\ [h \in 1..Len(steps[n].output.hits) |-> steps[n].output.hits[h].id]
         = <<"agentic-best-practices", "hackathon-submission", "nova-act-summary">>
    /\ [h \in 1..Len(steps[n].output.hits) |-> steps[n].output.hits[h].score] = <<2, 1, 1>>
    /\ Len(TopOf[QueryOf(steps[n])][2]) = 2

\* The inputs of the tool decisions of the environment, and the value of
\* each (undefined for a decision without an input member).
InputAtoms == {b \in MemberAtoms : Member(b).key = "input"} \cup {NoInput}
InputValue(I) == IF I = NoInput THEN Undefined ELSE Member(I).val

\* What follows the arrival of a decision for tool T with input I,
\* whatever its form: the tool's result is recorded as the Tool step after
\* the Model step and as the last user turn and the Tool Context is the
\* one the tool left; or the tool raised an error, and no Tool step is
\* recorded.
ToolOutcome(T, I) ==
  LET r == runTool(<<T>>, toolCtx, InputValue(I))
  IN  IF r.threw
      THEN /\ StepTypes(NewSteps) = <<"model", "error">>
           /\ thrown' = r.err
           /\ toolCtx' = toolCtx
           /\ Len(messages') = Len(messages) + 1
      ELSE /\ StepTypes(NewSteps) = <<"model", "tool">>
           /\ NewSteps[2] = [ type |-> "tool", call |-> [tool |-> <<T>>, input |-> InputValue(I)],
                              output |-> r.output ]
           /\ toolCtx' = r.ctx
           /\ Len(messages') = Len(messages) + 2
           /\ Last(messages') = [ role |-> <<"user">>,
                                  content |-> [k |-> "json", tool |-> <<T>>, output |-> OutputJson(r.output)] ]

\* C26: the canonical and the compact form of a tool decision have the same
\* effect: whenever a decision for a tool T with an input I arrives, in
\* either form, what follows is determined by the state, T and I alone,
\* so from the same state both forms lead to the same Tool step, the same
\* Tool Context and the same appended user turn.
C26_CompactEqualsCanonical ==
  [][ \A T \in ToolNames, I \in InputAtoms :
        (ModelTextArrives /\ NewText \in {Canonical(T, I), Compact(T, I)})
          => ToolOutcome(T, I) ]_vars

\* A run whose first decision was the compact makePlan call and whose
\* second was the canonical makePlan call with the same input: both Tool
\* steps and both user turns are equal.
C26_Witness ==
  /\ InModelCall
  /\ turn = 2
  /\ steps[1].output = Compact("makePlan", "\"input\":\"demo video\"")
  /\ steps[3].output = Canonical("makePlan", "\"input\":\"demo video\"")
  /\ steps[2] = steps[4]
  /\ steps[2].type = "tool"
  /\ messages[Len(messages)] = messages[Len(messages) - 2]
  /\ toolCtx.plan = steps[4].output.plan

\* The text without surrounding white space and without its fence, if it
\* is one fenced block.
CandidateOf(text) ==
  LET t == Stripped(text)
  IN  IF Len(t) >= 2 /\ t[1] = Fence /\ t[Len(t)] = Fence
      THEN LET inner == SubSeq(t, 2, Len(t) - 1)
           IN  Stripped(IF inner # << >> /\ inner[1] \in {"json", "JSON"} THEN Tail(inner) ELSE inner)
      ELSE t

Positions(s, a) == {i \in 1..Len(s) : s[i] = a}
MinOf(S) == CHOOSE i \in S : \A j \in S : i <= j
MaxOf(S) == CHOOSE i \in S : \A j \in S : i >= j

\* first and last enclose a pair: first occurs, and last occurs after it.
HasPair(s, first, last) ==
  /\ Positions(s, first) # {}
  /\ Positions(s, last) # {}
  /\ MaxOf(Positions(s, last)) > MinOf(Positions(s, first))
PairSlice(s, first, last) == SubSeq(s, MinOf(Positions(s, first)), MaxOf(Positions(s, last)))

\* The extraction from a candidate that starts with neither mark.
ExpectedExtract(c) ==
  IF HasPair(c, "{", "}") THEN PairSlice(c, "{", "}")
  ELSE IF HasPair(c, "[", "]") THEN PairSlice(c, "[", "]")
  ELSE c

\* Prose without braces around one object.
ObjectInProse(c) ==
  /\ Cardinality(Positions(c, "{")) = 1
  /\ Cardinality(Positions(c, "}")) = 1
  /\ HasPair(c, "{", "}")

\* C27: when the text, trimmed and without its fence, starts with neither
\* an opening brace nor an opening bracket, the extraction is the slice
\* from the first opening brace to the last closing brace if that one
\* lies after it; only without such a pair the slice from the first
\* opening bracket to the last closing bracket; and else the text itself.
\* An object within prose that has no braces is decoded as that object.
C27_SliceFallback ==
  [][ ModelTextArrives
        => LET c == CandidateOf(NewText)
           IN  (c = << >> \/ ~(c[1] \in {"{", "["}))
                 => /\ extractJsonObject(NewText) = ExpectedExtract(c)
                    /\ ObjectInProse(c)
                         => /\ ~Malformed(NewText)
                            /\ DecisionOf(NewText) = JSONparse(PairSlice(c, "{", "}")).val
                            /\ DecisionOf(NewText).k = "obj"
                    /\ (HasPair(c, "{", "}") /\ PairSlice(c, "{", "}") = FinalX)
                         => (response'.status = 200 /\ response'.body.final = <<"x">>) ]_vars

\* A run that, after a tool turn, succeeded on a Final decision standing
\* in prose after a bracketed number.
C27_Witness ==
  /\ pc = "done"
  /\ response.status = 200
  /\ Len(steps) >= 3
  /\ Last(steps).output = <<"See", " ", "[", "5", "]", " ", "then", " ">> \o FinalX
  /\ response.body.final = <<"x">>

\* C28: a run emits one response. The response is there exactly when the
\* handler has returned; once it is there it never changes and the run
\* appends no step and no message, changes no field of the Tool Context,
\* calls the model no more and sends no backend request; and the handler
\* that has returned takes no further step.
C28_OneResponse ==
  /\ [](pc = "done" <=> response # NoResponse)
  /\ [](response # NoResponse => ~ENABLED Next)
  /\ [][ response # NoResponse
           => ( /\ response' = response
                /\ steps' = steps
                /\ messages' = messages
                /\ toolCtx' = toolCtx
                /\ modelCalls' = modelCalls
                /\ requests' = requests ) ]_vars
  /\ [][ response' # response => (response = NoResponse /\ pc # "done" /\ pc' = "done") ]_vars

\* A run that answered with success after two tool turns that wrote plan
\* and draft.
C28_Witness ==
  /\ response # NoResponse
  /\ response.status = 200
  /\ pc = "done"
  /\ Len(steps) >= 5
  /\ toolCtx.plan # << >>
  /\ toolCtx.draft # Str(<< >>)

\* A transcript of the form (Model, Tool)* followed by an optional Model
\* step and then an optional Error step.
WellFormedTranscript(ss) ==
  \E p \in 0..(Len(ss) \div 2) :
    /\ \A j \in 1..p : ss[2 * j - 1].type = "model" /\ ss[2 * j].type = "tool"
    /\ StepTypes(SubSeq(ss, 2 * p + 1, Len(ss)))
         \in {<< >>, <<"model">>, <<"error">>, <<"model", "error">>}

\* The Tool step is the call that the decision in the text asks for.
Requests(text, st) ==
  LET d == DecisionOf(text)
  IN  /\ IsValidToolDecision(d)
      /\ st.call = [tool |-> ToolOf(d), input |-> InputOf(d)]

IsErrorStep(st) == st.type = "error"

\* C29: in every state the transcript has the form (Model, Tool)*, then an
\* optional Model step, then an optional Error step; every Tool step
\* directly follows the Model step whose decision asks for it; there is at
\* most one Error step and it is the last step; the transcript of a
\* successful run ends with a Model step and has no Error step; and steps
\* are only appended: every step of a transition leaves the earlier
\* transcript as its prefix.
C29_TranscriptShape ==
  /\ []( /\ WellFormedTranscript(steps)
         /\ \A n \in 1..Len(steps) :
              /\ steps[n].type = "tool"
                   => (n > 1 /\ steps[n - 1].type = "model" /\ Requests(steps[n - 1].output, steps[n]))
              /\ steps[n].type = "error" => n = Len(steps)
         /\ Len(SelectSeq(steps, IsErrorStep)) <= 1
         /\ response.status = 200
              => ( /\ steps # << >>
                   /\ Last(steps).type = "model"
                   /\ SelectSeq(steps, IsErrorStep) = << >>
                   /\ response.body.steps = steps ) )
  /\ [][IsPrefix(steps, steps')]_vars

\* A run failed in its third turn: two complete tool turns, a Model step
\* and the Error step.
C29_Witness ==
  /\ pc = "done"
  /\ StepTypes(steps) = <<"model", "tool", "model", "tool", "model", "error">>
  /\ response.status = 500

====
